---- MODULE Spec2Model ----
(***************************************************************************)
(* Model of the resilience layer of cost-management-mcp: the retry policy  *)
(* (common/utils.ts), the cache manager and its no-op variant              *)
(* (common/cache.ts), error classification (common/errors.ts) and the      *)
(* read-through getCosts of the provider clients; and of the analytics     *)
(* tools built on them (tools/*.ts): aggregation over the configured       *)
(* providers, breakdown, trends and period comparison; and of the          *)
(* transformers of the provider responses.                                 *)
(*                                                                         *)
(* Strings that the code concatenates, sorts or prefix-matches are         *)
(* sequences of character codes, so that key construction is computed and  *)
(* not assumed.  Opaque payloads (cost data, error classes) are TLA+       *)
(* strings or small integers.                                              *)
(***************************************************************************)
EXTENDS Integers, Sequences, FiniteSets, TLC

VARIABLES
    rt,        \* the retry() call under test: options, loop state, ghost counters
    store,     \* MemoryCache: key -> entry held by the NodeCache instance
    mgr,       \* CacheManager / MemoryCache: last operation and its result, the clock
    noop,      \* NoOpCache / NoOpCacheManager: last operation, its result, ghost log of sets
    calls,     \* in-flight getCosts calls of the provider clients
    tool,      \* the request of an MCP tool: arguments, loop position, collected results
    an         \* the analytics function or transformer applied last: input and result

vars == <<rt, store, mgr, noop, calls, tool, an>>

----------------------------------------------------------------------------
(* Bounds of the model. *)

MaxAttemptsBound == 3
MaxInitialDelay == 2
MaxFactor == 2
MaxDelayCap == 3
MaxValue == 2

(* Defaults of RetryOptions. *)
DefaultMaxAttempts == 3
DefaultInitialDelay == 1000
DefaultMaxDelay == 30000
DefaultFactor == 2

----------------------------------------------------------------------------
(* Generic helpers. *)

Min(a, b) == IF a <= b THEN a ELSE b

RECURSIVE Pow(_, _)
Pow(b, e) == IF e = 0 THEN 1 ELSE b * Pow(b, e - 1)

(* An optional field of an options object: <<>> when absent, <<v>> when given. *)
Given(S) == {<<>>} \cup {<<v>> : v \in S}

(* Destructuring with a default: `x = d` in `const { x = d } = options`. *)
OrDefault(x, d) == IF x = <<>> THEN d ELSE x[1]

----------------------------------------------------------------------------
(* Errors (common/errors.ts).  An error value is [id, cls, code]: id names  *)
(* the throw that created it, so that "the same error" can be told from an *)
(* equal-looking one.                                                      *)

BaseErrorKind(cls, code) == [cls |-> cls, code |-> code, msg |-> "none"]

RateLimitKind == BaseErrorKind("RateLimitError", "RATE_LIMIT_ERROR")
TimeoutKind == BaseErrorKind("ProviderError", "TIMEOUT")
NetworkKind == BaseErrorKind("ProviderError", "NETWORK_ERROR")
ServerKind == BaseErrorKind("ProviderError", "SERVER_ERROR")
NotImplementedKind == BaseErrorKind("ProviderError", "NOT_IMPLEMENTED")
AuthKind == BaseErrorKind("AuthenticationError", "AUTH_ERROR")
ValidationKind == BaseErrorKind("ValidationError", "VALIDATION_ERROR")
CacheErrorKind == BaseErrorKind("CacheError", "CACHE_ERROR")

(* An Error that is no BaseError; msg stands for its message or name. *)
PlainKind(msg) == [cls |-> "Error", code |-> "none", msg |-> msg]

MkError(id, kind) == [id |-> id, cls |-> kind.cls, code |-> kind.code, msg |-> kind.msg]

NoError == [id |-> 0, cls |-> "none", code |-> "none", msg |-> "none"]

retryableCodes == {"TIMEOUT", "NETWORK_ERROR", "SERVER_ERROR"}

isRetryableError(error) ==
    IF error.cls = "RateLimitError" THEN TRUE
    ELSE IF error.cls = "ProviderError" THEN error.code \in retryableCodes
    ELSE FALSE

----------------------------------------------------------------------------
(* retry(fn, options) (common/utils.ts).                                   *)

(* The shouldRetry predicates a caller passes: none (the default           *)
(* () => true), isRetryableError, or one that refuses every error.         *)
ShouldRetryChoices == {"default", "isRetryableError", "never"}

RetryOptionsSet ==
    [maxAttempts : Given(1 .. MaxAttemptsBound),
     initialDelay : Given(1 .. MaxInitialDelay),
     maxDelay : Given(1 .. MaxDelayCap),
     factor : Given(1 .. MaxFactor),
     shouldRetry : ShouldRetryChoices]

maxAttemptsOf(o) == OrDefault(o.maxAttempts, DefaultMaxAttempts)
initialDelayOf(o) == OrDefault(o.initialDelay, DefaultInitialDelay)
maxDelayOf(o) == OrDefault(o.maxDelay, DefaultMaxDelay)
factorOf(o) == OrDefault(o.factor, DefaultFactor)

shouldRetry(o, error) ==
    CASE o.shouldRetry = "default" -> TRUE
      [] o.shouldRetry = "isRetryableError" -> isRetryableError(error)
      [] OTHER -> FALSE

(* const delay = Math.min(initialDelay * Math.pow(factor, attempt - 1), maxDelay) *)
(* (variant: the cap is missing) *)
delayUncapped(o, attempt) == initialDelayOf(o) * Pow(factorOf(o), attempt - 1)

delay(o, attempt) == Min(initialDelayOf(o) * Pow(factorOf(o), attempt - 1), maxDelayOf(o))

(* The state of one retry call.  Code state: opts, attempt, lastError, pc, *)
(* result/thrown.  Ghost state: calls (invocations of fn so far), inFlight *)
(* (invocations not yet settled), raised (the error of the most recent     *)
(* failed invocation), okAt/okVal (which invocation succeeded, with what), *)
(* nFail (failed invocations), pending (the sleep in progress), sleeps     *)
(* (the sleeps that have completed, in order).                             *)
RetryIdle(o) ==
    [opts |-> o, pc |-> "idle", attempt |-> 0, lastError |-> NoError,
     result |-> 0, thrown |-> NoError,
     calls |-> 0, inFlight |-> 0, raised |-> NoError, okAt |-> 0, okVal |-> 0,
     nFail |-> 0, pending |-> 0, sleeps |-> <<>>]

(* throw lastError || new Error('Retry failed') *)
RetryFallThrough(r) ==
    [r EXCEPT !.pc = "rejected",
              !.thrown = IF r.lastError = NoError
                         THEN MkError(0, PlainKind("Retry failed")) ELSE r.lastError]

(* One evaluation of the loop head with the loop variable at `attempt`:    *)
(* the loop test, then `fn()` is called.                                   *)
RetryLoopHead(r, attempt) ==
    IF attempt <= maxAttemptsOf(r.opts)
    THEN [r EXCEPT !.pc = "calling", !.attempt = attempt,
                   !.calls = r.calls + 1, !.inFlight = r.inFlight + 1]
    ELSE RetryFallThrough([r EXCEPT !.attempt = attempt])

(* return await fn()  -- fn's promise fulfilled with v                     *)
(* (variant: the `return` is missing, so the loop goes on) *)
RetryOnResolveNoReturn(r, v) ==
    RetryLoopHead([r EXCEPT !.inFlight = r.inFlight - 1, !.okAt = r.calls, !.okVal = v],
                  r.attempt + 1)

RetryOnResolve(r, v) ==
    [r EXCEPT !.pc = "resolved", !.result = v, !.inFlight = r.inFlight - 1,
              !.okAt = r.calls, !.okVal = v]

(* catch (error): lastError = error; rethrow on the last attempt or when   *)
(* shouldRetry refuses; otherwise compute the delay and sleep.             *)
(* (variant: a new error is thrown in place of the caught one) *)
RetryOnRejectWrapped(r, e) ==
    LET r1 == [r EXCEPT !.lastError = e, !.raised = e, !.nFail = r.nFail + 1,
                        !.inFlight = r.inFlight - 1]
    IN  IF r.attempt = maxAttemptsOf(r.opts) \/ ~shouldRetry(r.opts, e)
        THEN [r1 EXCEPT !.pc = "rejected", !.thrown = MkError(0, PlainKind("Retry failed"))]
        ELSE [r1 EXCEPT !.pc = "sleeping", !.pending = delay(r.opts, r.attempt)]

(* (variant: shouldRetry is not consulted) *)
RetryOnRejectIgnoresPredicate(r, e) ==
    LET r1 == [r EXCEPT !.lastError = e, !.raised = e, !.nFail = r.nFail + 1,
                        !.inFlight = r.inFlight - 1]
    IN  IF r.attempt = maxAttemptsOf(r.opts)
        THEN [r1 EXCEPT !.pc = "rejected", !.thrown = e]
        ELSE [r1 EXCEPT !.pc = "sleeping", !.pending = delay(r.opts, r.attempt)]

RetryOnReject(r, e) ==
    LET r1 == [r EXCEPT !.lastError = e, !.raised = e, !.nFail = r.nFail + 1,
                        !.inFlight = r.inFlight - 1]
    IN  IF r.attempt = maxAttemptsOf(r.opts) \/ ~shouldRetry(r.opts, e)
        THEN [r1 EXCEPT !.pc = "rejected", !.thrown = r1.lastError]
        ELSE [r1 EXCEPT !.pc = "sleeping", !.pending = delay(r.opts, r.attempt)]

(* await sleep(delay) completes; attempt++ and the loop head runs again.   *)
RetryOnWake(r) ==
    RetryLoopHead([r EXCEPT !.sleeps = Append(r.sleeps, r.pending), !.pending = 0],
                  r.attempt + 1)

(* The errors fn raises in the retry specification. *)
RetryErrorKinds == {RateLimitKind, TimeoutKind, AuthKind}

----------------------------------------------------------------------------
(* Specification of one retry call.                                        *)

(* The parts of the state a specification does not use stay at these values. *)
IdleStore == <<>>
IdleMgr == [op |-> "none"]
IdleNoop == [op |-> "none"]
IdleCalls == <<>>
IdleTool == [pc |-> "none"]
IdleAn == [op |-> "none"]

RetryInit ==
    /\ rt \in {RetryIdle(o) : o \in RetryOptionsSet}
    /\ store = IdleStore
    /\ mgr = IdleMgr
    /\ noop = IdleNoop
    /\ tool = IdleTool
    /\ an = IdleAn
    /\ calls = IdleCalls

(* retry(fn, options) is called: the loop starts at attempt = 1. *)
RetryCall ==
    /\ rt.pc = "idle"
    /\ rt' = RetryLoopHead(rt, 1)
    /\ UNCHANGED <<store, mgr, noop, calls, tool, an>>

(* The invocation of fn in flight fulfils with a value. *)
FnResolve ==
    /\ rt.pc = "calling"
    /\ \E v \in 1 .. MaxValue : rt' = RetryOnResolve(rt, v)
    /\ UNCHANGED <<store, mgr, noop, calls, tool, an>>

(* The invocation of fn in flight rejects with a fresh error. *)
FnReject ==
    /\ rt.pc = "calling"
    /\ \E k \in RetryErrorKinds : rt' = RetryOnReject(rt, MkError(rt.calls, k))
    /\ UNCHANGED <<store, mgr, noop, calls, tool, an>>

(* The timer of sleep(delay) fires. *)
SleepDone ==
    /\ rt.pc = "sleeping"
    /\ rt' = RetryOnWake(rt)
    /\ UNCHANGED <<store, mgr, noop, calls, tool, an>>

RetryNext == RetryCall \/ FnResolve \/ FnReject \/ SleepDone

RetrySpec == RetryInit /\ [][RetryNext]_vars

----------------------------------------------------------------------------
(* Properties of retry, checked under RetrySpec.                           *)

(* C1: when fn has failed on invocations 1..k-1 and fulfilled on invocation *)
(* k, then k <= maxAttempts, retry has resolved, fn was invoked exactly k   *)
(* times and retry's value is the value of the k-th invocation.             *)
C1_SucceedsOnAttemptK ==
    rt.okAt > 0 =>
        /\ rt.pc = "resolved"
        /\ rt.okAt <= maxAttemptsOf(rt.opts)
        /\ rt.nFail = rt.okAt - 1
        /\ rt.calls = rt.okAt
        /\ rt.result = rt.okVal

(* Two failures, then success on the third invocation. *)
C1_Witness ==
    /\ rt.pc = "resolved"
    /\ rt.okAt = 3
    /\ rt.nFail = 2
    /\ rt.result = 2

(* C2 as stated: whenever retry has rejected (every invocation of fn       *)
(* failed), fn was invoked exactly maxAttempts times and the error thrown  *)
(* is the one raised by the last invocation.                               *)
C2_AlwaysFailingInvokedMaxAttempts ==
    (rt.pc = "rejected" /\ rt.okAt = 0) =>
        /\ rt.calls = maxAttemptsOf(rt.opts)
        /\ rt.thrown = rt.raised
        /\ rt.thrown.id = rt.calls

(* C2 amended: whenever retry has rejected, the error thrown is the very   *)
(* error raised by the last invocation of fn; and if shouldRetry accepts   *)
(* that error (as the default predicate does), fn was invoked exactly      *)
(* maxAttempts times.                                                      *)
C2_AlwaysFailingRetryable ==
    (rt.pc = "rejected" /\ rt.okAt = 0) =>
        /\ rt.thrown = rt.raised
        /\ rt.thrown.id = rt.calls
        /\ rt.nFail = rt.calls
        /\ shouldRetry(rt.opts, rt.raised) => rt.calls = maxAttemptsOf(rt.opts)

(* Three failures under the defaults: the third error is thrown. *)
C2_Witness ==
    /\ rt.pc = "rejected"
    /\ rt.opts.maxAttempts = <<>>
    /\ rt.opts.shouldRetry = "default"
    /\ rt.calls = 3
    /\ rt.thrown.id = 3

(* C3: when the latest invocation of fn, attempt n < maxAttempts, failed   *)
(* with an error that shouldRetry refuses, retry has rejected with that    *)
(* very error, fn has not been invoked again and no sleep was started for  *)
(* that failure.                                                           *)
C3_RefusedErrorPropagates ==
    (/\ rt.nFail > 0
     /\ rt.okAt = 0
     /\ rt.nFail = rt.calls
     /\ rt.calls < maxAttemptsOf(rt.opts)
     /\ ~shouldRetry(rt.opts, rt.raised)) =>
        /\ rt.pc = "rejected"
        /\ rt.thrown = rt.raised
        /\ rt.thrown.id = rt.calls
        /\ rt.inFlight = 0
        /\ rt.pending = 0
        /\ Len(rt.sleeps) = rt.calls - 1

(* A retryable failure, one sleep, then a refused failure on attempt 2 of 3. *)
C3_Witness ==
    /\ rt.pc = "rejected"
    /\ rt.opts.shouldRetry = "isRetryableError"
    /\ maxAttemptsOf(rt.opts) = 3
    /\ rt.calls = 2
    /\ rt.raised.cls = "AuthenticationError"
    /\ Len(rt.sleeps) = 1

(* C4: at most one invocation of fn is in flight; none is in flight during *)
(* a sleep; invocation n+1 exists only when n invocations have failed and  *)
(* n sleeps have completed; the n-th sleep lasts                           *)
(* min(initialDelay * factor^(n-1), maxDelay), which is at most maxDelay.  *)
C4_SequentialBackoff ==
    LET o == rt.opts
        d(n) == Min(initialDelayOf(o) * Pow(factorOf(o), n - 1), maxDelayOf(o))
    IN  /\ rt.inFlight \in {0, 1}
        /\ rt.inFlight = 1 <=> rt.pc = "calling"
        /\ rt.calls >= 1 => /\ Len(rt.sleeps) = rt.calls - 1
                            /\ rt.nFail >= rt.calls - 1
        /\ rt.pc = "sleeping" => /\ rt.nFail = rt.calls
                                 /\ rt.pending = d(rt.calls)
                                 /\ rt.pending <= maxDelayOf(o)
        /\ \A n \in DOMAIN rt.sleeps : /\ rt.sleeps[n] = d(n)
                                       /\ rt.sleeps[n] <= maxDelayOf(o)

(* The third invocation is in flight after two sleeps, the second of which *)
(* was cut down to maxDelay.                                               *)
C4_Witness ==
    /\ rt.pc = "calling"
    /\ rt.calls = 3
    /\ Len(rt.sleeps) = 2
    /\ rt.sleeps[2] = maxDelayOf(rt.opts)
    /\ initialDelayOf(rt.opts) * factorOf(rt.opts) > maxDelayOf(rt.opts)

----------------------------------------------------------------------------
(* Strings as sequences of character codes.                                *)

Colon == <<58>>

RECURSIVE StrLess(_, _)
(* a < b in the order of Array.prototype.sort() without a comparator       *)
(* (code units, a proper prefix first).                                    *)
StrLess(a, b) ==
    IF a = <<>> THEN b # <<>>
    ELSE IF b = <<>> THEN FALSE
    ELSE IF a[1] # b[1] THEN a[1] < b[1]
    ELSE StrLess(Tail(a), Tail(b))

(* String.prototype.startsWith *)
startsWith(s, prefix) ==
    /\ Len(prefix) <= Len(s)
    /\ SubSeq(s, 1, Len(prefix)) = prefix

RECURSIVE Insert(_, _)
Insert(sorted, x) ==
    IF sorted = <<>> THEN <<x>>
    ELSE IF StrLess(x, Head(sorted)) THEN <<x>> \o sorted
    ELSE <<Head(sorted)>> \o Insert(Tail(sorted), x)

RECURSIVE Sort(_)
(* Array.prototype.sort() on strings *)
Sort(strs) == IF strs = <<>> THEN <<>> ELSE Insert(Sort(Tail(strs)), Head(strs))

RECURSIVE join(_, _)
(* Array.prototype.join(sep) *)
join(strs, sep) ==
    IF strs = <<>> THEN <<>>
    ELSE IF Len(strs) = 1 THEN strs[1]
    ELSE strs[1] \o sep \o join(Tail(strs), sep)

----------------------------------------------------------------------------
(* Parameter objects.  An object is the sequence of its [key, value]       *)
(* properties in insertion order; its keys are distinct.                   *)

(* Object.keys(params) *)
ObjectKeys(params) == [i \in DOMAIN params |-> params[i].key]

(* params[key] *)
Lookup(params, key) ==
    LET i == CHOOSE j \in DOMAIN params : params[j].key = key IN params[i].value

PairSet(params) == {params[i] : i \in DOMAIN params}

IsObject(params) ==
    \A i, j \in DOMAIN params : params[i].key = params[j].key => i = j

----------------------------------------------------------------------------
(* MemoryCache and CacheManager (common/cache.ts).                         *)
(* store maps a cache key to its entry [data, provider]; provider is a     *)
(* ghost field: the provider argument of the setCostData that wrote it.    *)

Undefined == <<>>
Some(v) == <<v>>

(* private keyPrefix: string = 'cost-mgmt' *)
keyPrefix == <<99, 111, 115, 116, 45, 109, 103, 109, 116>>

(* (variant: the keys are not sorted) *)
buildKeyUnsorted(provider, params) ==
    LET keys == ObjectKeys(params)
        parts == [i \in DOMAIN keys |-> keys[i] \o Colon \o Lookup(params, keys[i])]
    IN  keyPrefix \o Colon \o provider \o Colon \o join(parts, Colon)

buildKey(provider, params) ==
    LET keys == Sort(ObjectKeys(params))
        parts == [i \in DOMAIN keys |-> keys[i] \o Colon \o Lookup(params, keys[i])]
    IN  keyPrefix \o Colon \o provider \o Colon \o join(parts, Colon)

(* MemoryCache.get / NodeCache.get *)
MemoryGet(st, key) == IF key \in DOMAIN st THEN Some(st[key].data) ELSE Undefined

(* MemoryCache.set *)
(* (variant: an existing entry is updated in part, keeping its costs) *)
MemorySetTorn(st, key, entry) ==
    [k \in DOMAIN st \cup {key} |->
        IF k # key THEN st[k]
        ELSE IF key \in DOMAIN st
             THEN [entry EXCEPT !.data = [entry.data EXCEPT !.costs = st[key].data.costs]]
             ELSE entry]

MemorySet(st, key, entry) ==
    [k \in DOMAIN st \cup {key} |-> IF k = key THEN entry ELSE st[k]]

(* MemoryCache.delete *)
MemoryDelete(st, key) == [k \in DOMAIN st \ {key} |-> st[k]]

(* MemoryCache.clear *)
MemoryClear(st) == <<>>

(* MemoryCache.has *)
MemoryHas(st, key) == key \in DOMAIN st

(* CacheManager.getCostData *)
getCostData(st, provider, params) == MemoryGet(st, buildKey(provider, params))

(* CacheManager.setCostData; the ttl argument is never passed by a caller  *)
setCostData(st, provider, params, data) ==
    MemorySet(st, buildKey(provider, params), [data |-> data, provider |-> provider])

(* const prefix = `${this.keyPrefix}:${provider}:` *)
(* (variant: the closing colon is missing) *)
invalidatePrefixOpen(provider) == keyPrefix \o Colon \o provider

invalidatePrefix(provider) == keyPrefix \o Colon \o provider \o Colon

RECURSIVE DeleteEach(_, _, _)
(* for (const key of keys) if (key.startsWith(prefix)) await this.cache.delete(key) *)
DeleteEach(st, keys, prefix) ==
    IF keys = {} THEN st
    ELSE LET key == CHOOSE k \in keys : TRUE
         IN  DeleteEach(IF startsWith(key, prefix) THEN MemoryDelete(st, key) ELSE st,
                        keys \ {key}, prefix)

(* CacheManager.invalidateProvider *)
invalidateProvider(st, provider) ==
    DeleteEach(st, DOMAIN st, invalidatePrefix(provider))

(* CacheManager.clearAll *)
clearAll(st) == MemoryClear(st)

----------------------------------------------------------------------------
(* Specification of the cache manager: callers issue setCostData,          *)
(* getCostData, invalidateProvider and clearAll in any order.              *)

MaxEntries == 2
MaxParams == 2

(* The cost data stored: opaque payloads. *)
Payloads == {"X", "Y"}

aws == <<97, 119, 115>>
aws2 == <<97, 119, 115, 50>>
gcp == <<103, 99, 112>>

(* Provider names passed to the cache manager.  They hold no ':'.  aws2 is *)
(* not a provider of the program; it stands for a name that extends        *)
(* another one.                                                            *)
CacheProviders == {aws, aws2, gcp}

(* The properties callers pass: a: '1' and b: '2', as in the tests of the  *)
(* cache manager.                                                          *)
ParamProperties == {[key |-> <<97>>, value |-> <<49>>], [key |-> <<98>>, value |-> <<50>>]}

ParamObjects ==
    {p \in UNION {[1 .. n -> ParamProperties] : n \in 0 .. MaxParams} : IsObject(p)}

MgrRecord(op, provider, params, data, ret, pre) ==
    [op |-> op, provider |-> provider, params |-> params, data |-> data,
     ret |-> ret, pre |-> pre]

CacheInit ==
    /\ store = <<>>
    /\ mgr = MgrRecord("none", <<>>, <<>>, "none", Undefined, <<>>)
    /\ rt = RetryIdle(CHOOSE o \in RetryOptionsSet : TRUE)
    /\ noop = IdleNoop
    /\ tool = IdleTool
    /\ an = IdleAn
    /\ calls = IdleCalls

SetCostData ==
    \E provider \in CacheProviders, params \in ParamObjects, data \in Payloads :
        /\ \/ buildKey(provider, params) \in DOMAIN store
           \/ Cardinality(DOMAIN store) < MaxEntries
        /\ store' = setCostData(store, provider, params, data)
        /\ mgr' = MgrRecord("setCostData", provider, params, data, Undefined, <<>>)
        /\ UNCHANGED <<rt, noop, calls, tool, an>>

GetCostData ==
    \E provider \in CacheProviders, params \in ParamObjects :
        /\ mgr' = MgrRecord("getCostData", provider, params, "none",
                            getCostData(store, provider, params), <<>>)
        /\ UNCHANGED <<store, rt, noop, calls, tool, an>>

InvalidateProvider ==
    \E provider \in CacheProviders :
        /\ store' = invalidateProvider(store, provider)
        /\ mgr' = MgrRecord("invalidateProvider", provider, <<>>, "none", Undefined, store)
        /\ UNCHANGED <<rt, noop, calls, tool, an>>

ClearAll ==
    /\ store' = clearAll(store)
    /\ mgr' = MgrRecord("clearAll", <<>>, <<>>, "none", Undefined, <<>>)
    /\ UNCHANGED <<rt, noop, calls, tool, an>>

CacheNext == SetCostData \/ GetCostData \/ InvalidateProvider \/ ClearAll

CacheSpec == CacheInit /\ [][CacheNext]_vars

----------------------------------------------------------------------------
(* Properties of the cache manager, checked under CacheSpec.               *)

(* C6: right after setCostData(provider, p1, X), getCostData(provider, p2) *)
(* returns X for every parameter object p2 that holds the key/value pairs  *)
(* of p1 in whatever insertion order, and p1 and p2 have the same cache    *)
(* key.                                                                    *)
C6_KeyIsCommutative ==
    mgr.op = "setCostData" =>
        \A p2 \in ParamObjects :
            PairSet(p2) = PairSet(mgr.params) =>
                /\ getCostData(store, mgr.provider, p2) = Some(mgr.data)
                /\ buildKey(mgr.provider, p2) = buildKey(mgr.provider, mgr.params)

(* setCostData('aws', {b:'2', a:'1'}, X) has just run; {a:'1', b:'2'} is a *)
(* different object with the same pairs.                                   *)
C6_Witness ==
    /\ mgr.op = "setCostData"
    /\ mgr.provider = aws
    /\ mgr.params = <<[key |-> <<98>>, value |-> <<50>>], [key |-> <<97>>, value |-> <<49>>]>>
    /\ getCostData(store, aws, <<[key |-> <<97>>, value |-> <<49>>],
                                 [key |-> <<98>>, value |-> <<50>>]>>) = Some(mgr.data)

(* C8: right after invalidateProvider(id), no entry written for provider   *)
(* id is stored, and every entry written for another provider (also one    *)
(* whose name extends id) is stored with the data it had before; nothing   *)
(* else is stored.                                                         *)
C8_InvalidateHitsOnlyProvider ==
    mgr.op = "invalidateProvider" =>
        /\ \A k \in DOMAIN mgr.pre :
              IF mgr.pre[k].provider = mgr.provider
              THEN k \notin DOMAIN store
              ELSE k \in DOMAIN store /\ store[k] = mgr.pre[k]
        /\ DOMAIN store \subseteq DOMAIN mgr.pre

(* invalidateProvider('aws') removed an aws entry and kept one of aws2. *)
C8_Witness ==
    /\ mgr.op = "invalidateProvider"
    /\ mgr.provider = aws
    /\ \E k \in DOMAIN mgr.pre : mgr.pre[k].provider = aws
    /\ \E k \in DOMAIN store : store[k].provider = aws2

----------------------------------------------------------------------------
(* NoOpCache and NoOpCacheManager (common/cache.ts).  Neither has a field: *)
(* an operation is its result [ret, has, threw].                           *)

NoOpResult(ret, has) == [ret |-> ret, has |-> has, threw |-> FALSE]

(* (variant: a cache that answers with what was set last) *)
NoOpCacheGetRemembers(key) ==
    IF noop.lastSet.target = "NoOpCache" /\ noop.lastSet.key = key
    THEN NoOpResult(Some(noop.lastSet.data), FALSE)
    ELSE NoOpResult(Undefined, FALSE)

NoOpCacheGet(key) == NoOpResult(Undefined, FALSE)
NoOpCacheSet(key, value) == NoOpResult(Undefined, FALSE)
NoOpCacheDelete(key) == NoOpResult(Undefined, FALSE)
NoOpCacheClear == NoOpResult(Undefined, FALSE)
NoOpCacheHas(key) == NoOpResult(Undefined, FALSE)

NoOpGetCostData(provider, params) == NoOpResult(Undefined, FALSE)
NoOpSetCostData(provider, params, data) == NoOpResult(Undefined, FALSE)
NoOpInvalidateProvider(provider) == NoOpResult(Undefined, FALSE)
NoOpClearAll == NoOpResult(Undefined, FALSE)

----------------------------------------------------------------------------
(* Specification of the no-op cache: callers issue its operations in any   *)
(* order.  noop holds the last operation with its arguments and result,    *)
(* and lastSet, a ghost: the arguments of the most recent set/setCostData  *)
(* that no delete, clear, invalidateProvider or clearAll has followed.     *)

NoOpKeys == {buildKey(aws, <<>>), buildKey(gcp, <<>>)}

NoSet == [target |-> "none", key |-> <<>>, provider |-> <<>>, params |-> <<>>, data |-> "none"]

NoOpRecord(target, op, key, provider, params, res, lastSet) ==
    [target |-> target, op |-> op, key |-> key, provider |-> provider, params |-> params,
     ret |-> res.ret, has |-> res.has, threw |-> res.threw, lastSet |-> lastSet]

NoOpInit ==
    /\ noop = NoOpRecord("none", "none", <<>>, <<>>, <<>>, NoOpResult(Undefined, FALSE), NoSet)
    /\ store = IdleStore
    /\ mgr = IdleMgr
    /\ rt = RetryIdle(CHOOSE o \in RetryOptionsSet : TRUE)
    /\ calls = IdleCalls
    /\ tool = IdleTool
    /\ an = IdleAn

NoOpGet ==
    \E key \in NoOpKeys :
        /\ noop' = NoOpRecord("NoOpCache", "get", key, <<>>, <<>>, NoOpCacheGet(key), noop.lastSet)
        /\ UNCHANGED <<store, mgr, rt, calls, tool, an>>

NoOpSet ==
    \E key \in NoOpKeys, value \in Payloads :
        /\ noop' = NoOpRecord("NoOpCache", "set", key, <<>>, <<>>, NoOpCacheSet(key, value),
                              [NoSet EXCEPT !.target = "NoOpCache", !.key = key, !.data = value])
        /\ UNCHANGED <<store, mgr, rt, calls, tool, an>>

NoOpDelete ==
    \E key \in NoOpKeys :
        /\ noop' = NoOpRecord("NoOpCache", "delete", key, <<>>, <<>>, NoOpCacheDelete(key),
                              IF noop.lastSet.target = "NoOpCache" /\ noop.lastSet.key = key
                              THEN NoSet ELSE noop.lastSet)
        /\ UNCHANGED <<store, mgr, rt, calls, tool, an>>

NoOpClear ==
    /\ noop' = NoOpRecord("NoOpCache", "clear", <<>>, <<>>, <<>>, NoOpCacheClear,
                          IF noop.lastSet.target = "NoOpCache" THEN NoSet ELSE noop.lastSet)
    /\ UNCHANGED <<store, mgr, rt, calls, tool, an>>

NoOpHas ==
    \E key \in NoOpKeys :
        /\ noop' = NoOpRecord("NoOpCache", "has", key, <<>>, <<>>, NoOpCacheHas(key), noop.lastSet)
        /\ UNCHANGED <<store, mgr, rt, calls, tool, an>>

NoOpMgrGetCostData ==
    \E provider \in CacheProviders, params \in ParamObjects :
        /\ noop' = NoOpRecord("NoOpCacheManager", "getCostData", <<>>, provider, params,
                              NoOpGetCostData(provider, params), noop.lastSet)
        /\ UNCHANGED <<store, mgr, rt, calls, tool, an>>

NoOpMgrSetCostData ==
    \E provider \in CacheProviders, params \in ParamObjects, data \in Payloads :
        /\ noop' = NoOpRecord("NoOpCacheManager", "setCostData", <<>>, provider, params,
                              NoOpSetCostData(provider, params, data),
                              [NoSet EXCEPT !.target = "NoOpCacheManager", !.provider = provider,
                                            !.params = params, !.data = data])
        /\ UNCHANGED <<store, mgr, rt, calls, tool, an>>

NoOpMgrInvalidateProvider ==
    \E provider \in CacheProviders :
        /\ noop' = NoOpRecord("NoOpCacheManager", "invalidateProvider", <<>>, provider, <<>>,
                              NoOpInvalidateProvider(provider),
                              IF /\ noop.lastSet.target = "NoOpCacheManager"
                                 /\ noop.lastSet.provider = provider
                              THEN NoSet ELSE noop.lastSet)
        /\ UNCHANGED <<store, mgr, rt, calls, tool, an>>

NoOpMgrClearAll ==
    /\ noop' = NoOpRecord("NoOpCacheManager", "clearAll", <<>>, <<>>, <<>>, NoOpClearAll,
                          IF noop.lastSet.target = "NoOpCacheManager" THEN NoSet ELSE noop.lastSet)
    /\ UNCHANGED <<store, mgr, rt, calls, tool, an>>

NoOpNext ==
    \/ NoOpGet \/ NoOpSet \/ NoOpDelete \/ NoOpClear \/ NoOpHas
    \/ NoOpMgrGetCostData \/ NoOpMgrSetCostData \/ NoOpMgrInvalidateProvider \/ NoOpMgrClearAll

NoOpSpec == NoOpInit /\ [][NoOpNext]_vars

(* C7: after any sequence of operations on NoOpCache and NoOpCacheManager, *)
(* the last operation has not thrown; if it was a get or a getCostData it  *)
(* returned undefined, also for the key that was set last and not removed  *)
(* since; if it was a has it returned false.                               *)
C7_NoOpAlwaysMisses ==
    /\ ~noop.threw
    /\ noop.op \in {"get", "getCostData"} => noop.ret = Undefined
    /\ noop.op = "has" => noop.has = FALSE

(* get(k) right after set(k, X): a real cache would hold k. *)
C7_Witness ==
    /\ noop.target = "NoOpCache"
    /\ noop.op = "get"
    /\ noop.lastSet.target = "NoOpCache"
    /\ noop.lastSet.key = noop.key
    /\ noop.ret = Undefined

----------------------------------------------------------------------------
(* Provider clients: getCosts of OpenAICostClient, AnthropicCostClient,    *)
(* AWSCostClient and GCPCostClient.                                        *)

openai == <<111, 112, 101, 110, 97, 105>>
anthropic == <<97, 110, 116, 104, 114, 111, 112, 105, 99>>

Clients == {"openai", "anthropic", "aws", "gcp"}

(* The provider name each client passes to the cache manager. *)
ProviderName(client) ==
    CASE client = "openai" -> openai
      [] client = "anthropic" -> anthropic
      [] client = "aws" -> aws
      [] OTHER -> gcp

(* The clients that wrap their cache calls in try/catch. *)
GuardsCache(client) == client \in {"openai", "anthropic"}

(* A Date is [day, time]: the two parts of its ISO string.                 *)
(* "2024-01-01", "2024-01-31", "00:00:00.000", "00:00:00.001"              *)
Day1 == <<50, 48, 50, 52, 45, 48, 49, 45, 48, 49>>
Day31 == <<50, 48, 50, 52, 45, 48, 49, 45, 51, 49>>
Midnight == <<48, 48, 58, 48, 48, 58, 48, 48, 46, 48, 48, 48>>
JustAfterMidnight == <<48, 48, 58, 48, 48, 58, 48, 48, 46, 48, 48, 49>>

(* Date.prototype.toISOString *)
toISOString(date) == date.day \o <<84>> \o date.time \o <<90>>

(* date.toISOString().split('T')[0] *)
formatDateOnly(date) == SubSeq(toISOString(date), 1, 10)

formatOpenAIDate(date) == formatDateOnly(date)
formatAWSDate(date) == formatDateOnly(date)
formatAnthropicDate(date) == toISOString(date)
formatGCPDate(date) == toISOString(date)

(* "daily", "undefined", the property names of the cache key objects *)
daily == <<100, 97, 105, 108, 121>>
undefinedText == <<117, 110, 100, 101, 102, 105, 110, 101, 100>>
startDateName == <<115, 116, 97, 114, 116, 68, 97, 116, 101>>
endDateName == <<101, 110, 100, 68, 97, 116, 101>>
granularityName == <<103, 114, 97, 110, 117, 108, 97, 114, 105, 116, 121>>
groupByName == <<103, 114, 111, 117, 112, 66, 121>>

(* `${value}` of an optional string array: "undefined", or the elements    *)
(* joined by ",".                                                          *)
TemplateText(groupBy) == IF groupBy = Undefined THEN undefinedText ELSE join(groupBy[1], <<44>>)

(* The CostQueryParams of the calls: the same range, asked for at two      *)
(* instants of the same day.                                               *)
QueryParams ==
    {[startDate |-> [day |-> Day1, time |-> t], endDate |-> [day |-> Day31, time |-> Midnight],
      granularity |-> daily, groupBy |-> Undefined] : t \in {Midnight, JustAfterMidnight}}

(* const cacheKey = {...} of each client's getCosts *)
cacheKey(client, params) ==
    CASE client = "openai" ->
            <<[key |-> startDateName, value |-> formatOpenAIDate(params.startDate)],
              [key |-> endDateName, value |-> formatOpenAIDate(params.endDate)],
              [key |-> granularityName, value |-> params.granularity]>>
      [] client = "anthropic" ->
            <<[key |-> startDateName, value |-> formatAnthropicDate(params.startDate)],
              [key |-> endDateName, value |-> formatAnthropicDate(params.endDate)],
              [key |-> granularityName, value |-> params.granularity]>>
      [] client = "aws" ->
            <<[key |-> startDateName, value |-> formatAWSDate(params.startDate)],
              [key |-> endDateName, value |-> formatAWSDate(params.endDate)],
              [key |-> granularityName, value |-> params.granularity],
              [key |-> groupByName, value |-> TemplateText(params.groupBy)]>>
      [] OTHER ->
            <<[key |-> startDateName, value |-> formatGCPDate(params.startDate)],
              [key |-> endDateName, value |-> formatGCPDate(params.endDate)],
              [key |-> granularityName, value |-> params.granularity],
              [key |-> groupByName, value |-> TemplateText(params.groupBy)]>>

(* The key under which a call reads and writes the cache. *)
CallKey(client, params) == buildKey(ProviderName(client), cacheKey(client, params))

(* UnifiedCostData; costs is the opaque content of the upstream response.  *)
NoData == [provider |-> "none", period |-> <<>>, costs |-> "none", source |-> "none"]

(* transformXResponse(response, {start: params.startDate, end: params.endDate}) *)
transform(client, response, params) ==
    [provider |-> client, period |-> <<params.startDate, params.endDate>>,
     costs |-> response, source |-> "api"]

(* (variant: cached data is returned as it was stored) *)
fromCacheUnmarked(cached) == cached

(* return {...cached, metadata: {...cached.metadata, source: 'cache'}} *)
fromCache(cached) == [cached EXCEPT !.source = "cache"]

(* retry(() => this.fetch...(params), {maxAttempts: 3, shouldRetry: isRetryableError}) *)
ClientRetryOptions ==
    [maxAttempts |-> <<3>>, initialDelay |-> <<>>, maxDelay |-> <<>>, factor |-> <<>>,
     shouldRetry |-> "isRetryableError"]

(* The ways the upstream API fails. *)
RetryableFailures == {"rate-limit", "timeout", "network", "5xx"}
FatalFailures == {"auth", "validation"}
UpstreamFailures == RetryableFailures \cup FatalFailures

(* What the fetch function of a client throws on an upstream failure:      *)
(* openai and anthropic throw new Error(`... ${response.status} ...`) or   *)
(* pass on the TypeError of fetch; aws passes on the exception of the SDK; *)
(* gcp throws ProviderError NOT_IMPLEMENTED whatever the upstream does.    *)
fetchError(client, failure, id) ==
    IF client = "gcp" THEN MkError(id, NotImplementedKind)
    ELSE MkError(id, PlainKind(failure))

(* The code of the ProviderError each client throws for a failure it does  *)
(* not recognise.                                                          *)
apiErrorCode(client) ==
    CASE client = "openai" -> "OPENAI_API_ERROR"
      [] client = "anthropic" -> "ANTHROPIC_API_ERROR"
      [] client = "aws" -> "AWS_API_ERROR"
      [] OTHER -> "GCP_API_ERROR"

(* The catch block of getCosts around retry, transform and (aws, gcp) the  *)
(* cache write.                                                            *)
mapError(client, error) ==
    IF error.cls = "Error" /\ error.msg = "auth"
    THEN MkError(0, AuthKind)
    ELSE MkError(0, BaseErrorKind("ProviderError", apiErrorCode(client)))

(* One getCosts call.  Ghost fields: readThrew / writeThrew (the cache     *)
(* operation of this call threw a CacheError), upstream (how the last      *)
(* fetch attempt failed), response (what the successful fetch returned).   *)
IdleCall ==
    [pc |-> "idle", client |-> "none", params |-> <<>>, rt |-> RetryIdle(ClientRetryOptions),
     response |-> "none", ret |-> NoData, err |-> NoError,
     readThrew |-> FALSE, writeThrew |-> FALSE, upstream |-> "none"]

(* getCosts(params) is called: the cache is read, and on a miss the first  *)
(* fetch attempt is started.                                               *)
GetCostsOn(call, client, params, readThrows) ==
    LET c0 == [call EXCEPT !.client = client, !.params = params, !.readThrew = readThrows]
        cached == getCostData(store, ProviderName(client), cacheKey(client, params))
    IN  IF readThrows /\ ~GuardsCache(client)
        THEN [c0 EXCEPT !.pc = "rejected", !.err = MkError(0, CacheErrorKind)]
        ELSE IF ~readThrows /\ cached # Undefined
        THEN [c0 EXCEPT !.pc = "returned", !.ret = fromCache(cached[1])]
        ELSE [c0 EXCEPT !.pc = "fetching", !.rt = RetryLoopHead(call.rt, 1)]

(* Calls are started in the order of their numbers. *)
GetCosts(c, cacheThrows) ==
    /\ calls[c].pc = "idle"
    /\ c > 1 => calls[c - 1].pc # "idle"
    /\ \E client \in Clients, params \in QueryParams, readThrows \in cacheThrows :
          calls' = [calls EXCEPT ![c] = GetCostsOn(calls[c], client, params, readThrows)]
    /\ UNCHANGED <<store, mgr, noop, rt, tool, an>>

(* The fetch in flight fulfils with a response. *)
FetchFulfils(c) ==
    /\ calls[c].pc = "fetching"
    /\ calls[c].client # "gcp"
    /\ \E response \in Payloads :
          calls' = [calls EXCEPT ![c] = [calls[c] EXCEPT !.pc = "fetched",
                                                       !.response = response,
                                                       !.rt = RetryOnResolve(calls[c].rt, response)]]
    /\ UNCHANGED <<store, mgr, noop, rt, tool, an>>

(* The retry loop of a call after a failure. *)
AfterRetryStep(call, r, failure) ==
    CASE r.pc = "rejected" ->
            [call EXCEPT !.pc = "rejected", !.rt = r, !.upstream = failure,
                         !.err = mapError(call.client, r.thrown)]
      [] r.pc = "sleeping" -> [call EXCEPT !.pc = "sleeping", !.rt = r, !.upstream = failure]
      [] OTHER -> [call EXCEPT !.pc = "fetching", !.rt = r]

(* The fetch in flight fails (gcp: fetchCostData throws without asking the *)
(* upstream), or the sleep between two attempts ends.                      *)
FetchFailsOrSleepEnds(c, failures) ==
    /\ calls[c].pc \in {"fetching", "sleeping"}
    /\ \E failure \in IF calls[c].client = "gcp" THEN {"not-implemented"} ELSE failures :
          LET call == calls[c]
              r == IF call.pc = "sleeping"
                   THEN RetryOnWake(call.rt)
                   ELSE RetryOnReject(call.rt, fetchError(call.client, failure, call.rt.calls))
          IN  calls' = [calls EXCEPT ![c] = AfterRetryStep(call, r, failure)]
    /\ UNCHANGED <<store, mgr, noop, rt, tool, an>>

(* After a successful fetch: transform, write the cache, return. *)
StoreAndReturn(c, cacheThrows) ==
    /\ calls[c].pc = "fetched"
    /\ \E writeThrows \in cacheThrows :
          LET call == calls[c]
              transformed == transform(call.client, call.response, call.params)
          IN  /\ store' = IF writeThrows THEN store
                          ELSE setCostData(store, ProviderName(call.client),
                                           cacheKey(call.client, call.params), transformed)
              /\ calls' = [calls EXCEPT ![c] =
                    IF writeThrows /\ ~GuardsCache(call.client)
                    THEN [call EXCEPT !.pc = "rejected", !.writeThrew = TRUE,
                                      !.err = mapError(call.client, MkError(0, CacheErrorKind))]
                    ELSE [call EXCEPT !.pc = "returned", !.writeThrew = writeThrows,
                                      !.ret = transformed]]
    /\ UNCHANGED <<mgr, noop, rt, tool, an>>

(* The TTL of an entry runs out. *)
Expire ==
    /\ \E key \in DOMAIN store : store' = MemoryDelete(store, key)
    /\ UNCHANGED <<calls, mgr, noop, rt, tool, an>>

----------------------------------------------------------------------------
(* Specification of one getCosts call of any client, against an upstream   *)
(* that answers or fails in any way and a cache whose operations may throw *)
(* a CacheError.  The cache may hold an entry of an earlier call.          *)

EarlierEntries ==
    {<<>>} \cup
    {setCostData(<<>>, ProviderName(client), cacheKey(client, params),
                 transform(client, response, params)) :
        client \in Clients \ {"gcp"}, params \in QueryParams, response \in Payloads}

ClientInit ==
    /\ calls = <<IdleCall>>
    /\ store \in EarlierEntries
    /\ mgr = IdleMgr
    /\ noop = IdleNoop
    /\ tool = IdleTool
    /\ an = IdleAn
    /\ rt = RetryIdle(ClientRetryOptions)

ClientNext ==
    \/ GetCosts(1, BOOLEAN)
    \/ FetchFulfils(1)
    \/ FetchFailsOrSleepEnds(1, UpstreamFailures)
    \/ StoreAndReturn(1, BOOLEAN)
    \/ Expire

ClientSpec == ClientInit /\ [][ClientNext]_vars

----------------------------------------------------------------------------
(* Specification of concurrently in-flight getCosts calls that share one   *)
(* cache manager.  Every await of a call is a point where the other calls  *)
(* may run.  The cache operations do not throw here; a throwing cache is   *)
(* the subject of ClientSpec.                                              *)

MaxCalls == 2

CallIds == 1 .. MaxCalls

(* One retryable and one fatal kind of upstream failure. *)
SharedFailures == {"5xx", "auth"}

SharedInit ==
    /\ calls = [c \in CallIds |-> IdleCall]
    /\ store = <<>>
    /\ mgr = IdleMgr
    /\ noop = IdleNoop
    /\ tool = IdleTool
    /\ an = IdleAn
    /\ rt = RetryIdle(ClientRetryOptions)

SharedNext ==
    \/ \E c \in CallIds : GetCosts(c, {FALSE})
    \/ \E c \in CallIds : FetchFulfils(c)
    \/ \E c \in CallIds : FetchFailsOrSleepEnds(c, SharedFailures)
    \/ \E c \in CallIds : StoreAndReturn(c, {FALSE})
    \/ Expire

SharedSpec == SharedInit /\ [][SharedNext]_vars

----------------------------------------------------------------------------
(* Properties of one getCosts call, checked under ClientSpec.              *)

(* C5: when getCosts has failed because the upstream failed, the fetch was *)
(* attempted 3 times if the last failure was a rate-limit, a timeout, a    *)
(* network error or a 5xx, and exactly once if it was an authentication or *)
(* a validation failure.                                                   *)
C5_AttemptsFollowFailureClass ==
    LET call == calls[1]
    IN  (call.pc = "rejected" /\ call.upstream \in UpstreamFailures) =>
            IF call.upstream \in RetryableFailures
            THEN call.rt.calls = maxAttemptsOf(ClientRetryOptions)
            ELSE call.rt.calls = 1

(* C9: when the cache read or the cache write of a getCosts call has       *)
(* thrown a CacheError, the call fails only if its fetch failed, and then  *)
(* with the error of the fetch; and when its fetch succeeded it returns    *)
(* the transformed response of that fetch.                                 *)
C9_CacheFailureIsInvisible ==
    LET call == calls[1]
    IN  (call.readThrew \/ call.writeThrew) =>
            /\ call.pc = "rejected" =>
                  /\ call.upstream # "none"
                  /\ call.response = "none"
                  /\ call.err = mapError(call.client, call.rt.thrown)
            /\ call.pc = "returned" =>
                  /\ call.response # "none"
                  /\ call.ret = transform(call.client, call.response, call.params)

----------------------------------------------------------------------------
(* Properties of concurrent getCosts calls, checked under SharedSpec.      *)

SuccessfulFetch(c) == calls[c].response # "none"

FetchResult(c) == transform(calls[c].client, calls[c].response, calls[c].params)

KeyOfCall(c) == CallKey(calls[c].client, calls[c].params)

(* C10: every cache entry holds the whole transformed result of one        *)
(* successful fetch made for its key, and every call that has returned     *)
(* returned the result of its own fetch or, marked as coming from the      *)
(* cache, the whole result of a successful fetch another call made for     *)
(* the same key.                                                           *)
C10_EntriesAreWholeFetchResults ==
    /\ \A key \in DOMAIN store :
          \E c \in CallIds : /\ SuccessfulFetch(c)
                             /\ KeyOfCall(c) = key
                             /\ store[key].data = FetchResult(c)
    /\ \A c \in CallIds :
          calls[c].pc = "returned" =>
              \/ SuccessfulFetch(c) /\ calls[c].ret = FetchResult(c)
              \/ \E d \in CallIds \ {c} : /\ SuccessfulFetch(d)
                                          /\ KeyOfCall(d) = KeyOfCall(c)
                                          /\ calls[c].ret = fromCache(FetchResult(d))

(* Two calls for one key were in flight together: the second has written   *)
(* its result and returned while the first, which fetched something else,  *)
(* has not yet written.                                                    *)
C10_Witness ==
    /\ calls[1].pc = "fetched"
    /\ calls[2].pc = "returned"
    /\ calls[2].ret.source = "api"
    /\ KeyOfCall(1) = KeyOfCall(2)
    /\ FetchResult(1) # FetchResult(2)
    /\ KeyOfCall(2) \in DOMAIN store
    /\ store[KeyOfCall(2)].data = FetchResult(2)

----------------------------------------------------------------------------
(* The MCP tools: getCostTool, compareProvidersTool, getCostBreakdownTool, *)
(* getCostTrendsTool and getCostPeriodsTool.  A tool validates its         *)
(* arguments, then either serves the one provider asked for or loops over  *)
(* the Map of configured providers.  getCosts of a provider is an          *)
(* asynchronous call that fulfils with cost data or rejects.               *)

MaxProviders == 2
MaxDay == 2
MaxTotal == 2

(* The providers the schemas of the tools accept, in the order in which    *)
(* the server registers them.                                              *)
ProviderOrder == <<"aws", "gcp", "openai">>

ToolNames == {"getCost", "compareProviders", "breakdown", "trends", "periods"}

(* Dates are day numbers. *)
Days == 1 .. MaxDay
Ranges == [start : Days, end : Days]
NoRange == [start |-> 0, end |-> 0]

(* costs.total of the data a provider returns *)
Totals == 0 .. MaxTotal

(* What getCosts rejects with: an Error with a message, or another value. *)
Rejections == {[isError |-> TRUE, cls |-> "Error", message |-> "API Error"],
               [isError |-> FALSE, cls |-> "none", message |-> "none"]}

NoRejection == [isError |-> FALSE, cls |-> "none", message |-> "no error"]

(* new ValidationError(message) *)
ValidationFailure(message) == [isError |-> TRUE, cls |-> "ValidationError", message |-> message]

(* error instanceof Error ? error.message : 'Unknown error' *)
errorText(error) == IF error.isError THEN error.message ELSE "Unknown error"

(* The tools that take a provider argument. *)
TakesProvider(name) == name # "compareProviders"

(* The number of date ranges a tool takes. *)
RangesOf(name) ==
    CASE name = "trends" -> 0
      [] name = "periods" -> 2
      [] OTHER -> 1

(* The validation of the date ranges: TRUE when the tool throws.           *)
(* getCostTool, compareProvidersTool: startDate > endDate                  *)
(* getCostBreakdownTool: startDate >= endDate                              *)
(* getCostPeriodsTool: period1Start >= period1End ||                       *)
(*                     period2Start >= period2End                          *)
RejectsRanges(name, r1, r2) ==
    CASE name \in {"getCost", "compareProviders"} -> r1.start > r1.end
      [] name = "breakdown" -> r1.start >= r1.end
      [] name = "periods" -> r1.start >= r1.end \/ r2.start >= r2.end
      [] OTHER -> FALSE

(* The getCosts calls one provider's step makes: comparePeriods starts two *)
(* under Promise.all, the other tools one.                                 *)
CallsPerStep(name) == IF name = "periods" THEN {1, 2} ELSE {1}

RECURSIVE SumTotals(_)
(* allCosts.reduce((sum, data) => sum + data.costs.total, 0) *)
SumTotals(items) ==
    IF items = <<>> THEN 0 ELSE items[1].costs[1] + SumTotals(Tail(items))

NoResult == [success |-> FALSE, total |-> Undefined, providers |-> <<>>, errors |-> Undefined]

(* The request before the tool is called.  Ghost fields: invoked (number   *)
(* of getCosts calls made), done (providers whose getCosts has settled),   *)
(* lateStarts (providers whose getCosts was started after another          *)
(* provider's had settled), succeeded and failed (what each provider's     *)
(* step came to), fulfilled (the getCosts calls that fulfilled, in the     *)
(* order in which they did, with what they returned).                      *)
IdleRequest(n) ==
    [pc |-> "idle", providers |-> SubSeq(ProviderOrder, 1, n),
     name |-> "none", provider |-> Undefined, r1 |-> NoRange, r2 |-> NoRange,
     mode |-> "none", i |-> 0, pending |-> {}, got |-> <<>>,
     items |-> <<>>, errors |-> <<>>, result |-> NoResult, err |-> NoRejection,
     invoked |-> 0, done |-> {}, lateStarts |-> {}, succeeded |-> <<>>, failed |-> <<>>,
     fulfilled |-> <<>>]

(* provider.getCosts(...) of the i-th configured provider is called. *)
StartStep(t, i) ==
    [t EXCEPT !.i = i, !.pending = CallsPerStep(t.name), !.got = <<>>,
              !.invoked = @ + Cardinality(CallsPerStep(t.name)),
              !.lateStarts = IF t.done \ {t.providers[i]} # {}
                             THEN @ \cup {t.providers[i]} ELSE @]

(* What a provider's step contributes to the result: the cost data of      *)
(* getCostTool, the analysis of the analytics tools, the success record of *)
(* compareProvidersTool.  costs holds the totals the getCosts calls of the *)
(* step returned.                                                          *)
SuccessItem(provider, got) ==
    [provider |-> provider, costs |-> got, status |-> "success", error |-> Undefined]

(* providerCosts.push({provider, cost: 0, status: 'error', error}) *)
ErrorItem(provider, error) ==
    [provider |-> provider, costs |-> <<0>>, status |-> "error", error |-> Some(errorText(error))]

(* errors.push({provider: providerName, error: ...}) *)
ErrorRecord(provider, error) == [provider |-> provider, error |-> errorText(error)]

IsSuccess(item) == item.status = "success"

(* (variant: the errors field is always there, also as an empty list) *)
BuildResultWithErrorsAlways(t) ==
    CASE t.mode = "single" ->
            [success |-> TRUE, total |-> Undefined, providers |-> t.items, errors |-> Undefined]
      [] OTHER ->
            [success |-> TRUE, total |-> Some(SumTotals(SelectSeq(t.items, IsSuccess))),
             providers |-> t.items, errors |-> Some(t.errors)]

(* The response of the tool. *)
BuildResult(t) ==
    CASE t.mode = "single" ->
            [success |-> TRUE, total |-> Undefined, providers |-> t.items, errors |-> Undefined]
      [] t.name = "getCost" ->
            [success |-> TRUE, total |-> Some(SumTotals(t.items)), providers |-> t.items,
             errors |-> IF Len(t.errors) > 0 THEN Some(t.errors) ELSE Undefined]
      [] t.name = "compareProviders" ->
            [success |-> TRUE, total |-> Some(SumTotals(SelectSeq(t.items, IsSuccess))),
             providers |-> t.items, errors |-> Undefined]
      [] OTHER ->
            [success |-> TRUE, total |-> Undefined, providers |-> t.items, errors |-> Undefined]

Finish(t) == [t EXCEPT !.pc = "returned", !.result = BuildResult(t)]

(* The next iteration of  for (const [name, provider] of providers)  or,   *)
(* after the last one, the response.                                       *)
Advance(t) == IF t.i < Len(t.providers) THEN StartStep(t, t.i + 1) ELSE Finish(t)

(* (variant: the catch block only logs, whatever the tool) *)
CatchLogsOnly(t, provider, error) == t

(* The catch block inside the loop over the providers. *)
Catch(t, provider, error) ==
    CASE t.name = "getCost" -> [t EXCEPT !.errors = Append(@, ErrorRecord(provider, error))]
      [] t.name = "compareProviders" -> [t EXCEPT !.items = Append(@, ErrorItem(provider, error))]
      [] OTHER -> t

(* (variant: the results of a step are taken in the order in which the     *)
(* calls fulfil)                                                           *)
OnFulfilInOrderOfCompletion(t, k, total) ==
    LET provider == t.providers[t.i]
        got == Append(t.got, total)
        t0 == [t EXCEPT !.pending = @ \ {k}, !.got = got, !.done = @ \cup {provider},
                        !.fulfilled = Append(@, [provider |-> provider, call |-> k,
                                                 total |-> total])]
        item == SuccessItem(provider, got)
        t1 == [t0 EXCEPT !.items = Append(@, item), !.succeeded = Append(@, item)]
    IN  IF t0.pending # {} THEN t0
        ELSE IF t.mode = "single" THEN Finish(t1) ELSE Advance(t1)

(* A getCosts call of the current step fulfils.  The results of the calls  *)
(* of a step are held by the position of the call (the array Promise.all   *)
(* fulfils with).                                                          *)
OnFulfil(t, k, total) ==
    LET provider == t.providers[t.i]
        got == [c \in DOMAIN t.got \cup {k} |-> IF c = k THEN total ELSE t.got[c]]
        t0 == [t EXCEPT !.pending = @ \ {k}, !.got = got, !.done = @ \cup {provider},
                        !.fulfilled = Append(@, [provider |-> provider, call |-> k,
                                                 total |-> total])]
        item == SuccessItem(provider, got)
        t1 == [t0 EXCEPT !.items = Append(@, item), !.succeeded = Append(@, item)]
    IN  IF t0.pending # {} THEN t0
        ELSE IF t.mode = "single" THEN Finish(t1) ELSE Advance(t1)

(* (variant: a failure of the one provider asked for is caught as in the   *)
(* loop over all providers)                                                *)
OnRejectSwallowed(t, k, error) ==
    LET provider == t.providers[t.i]
        t1 == [t EXCEPT !.pending = {}, !.done = @ \cup {provider},
                        !.failed = Append(@, [provider |-> provider, error |-> error])]
    IN  IF t.mode = "single" THEN Finish(t1) ELSE Advance(Catch(t1, provider, error))

(* A getCosts call of the current step rejects.  Under Promise.all the     *)
(* step fails at once; the other call of the step is not waited for.       *)
OnReject(t, k, error) ==
    LET provider == t.providers[t.i]
        t1 == [t EXCEPT !.pending = {}, !.done = @ \cup {provider},
                        !.failed = Append(@, [provider |-> provider, error |-> error])]
    IN  IF t.mode = "single"
        THEN [t1 EXCEPT !.pc = "thrown", !.err = error]
        ELSE Advance(Catch(t1, provider, error))

(* The tool is called: validation, then the first getCosts. *)
Invoke(t, name, provider, r1, r2) ==
    LET t0 == [t EXCEPT !.pc = "running", !.name = name, !.provider = provider,
                        !.r1 = r1, !.r2 = r2]
        configured == {t.providers[i] : i \in DOMAIN t.providers}
    IN  IF RejectsRanges(name, r1, r2)
        THEN [t0 EXCEPT !.pc = "thrown",
                        !.err = ValidationFailure("Start date must be before end date")]
        ELSE IF provider # Undefined
        THEN IF provider[1] \notin configured
             THEN [t0 EXCEPT !.pc = "thrown",
                             !.err = ValidationFailure("Provider not configured")]
             ELSE StartStep([t0 EXCEPT !.mode = "single"],
                            CHOOSE i \in DOMAIN t.providers : t.providers[i] = provider[1])
        ELSE Advance([t0 EXCEPT !.mode = "all"])

----------------------------------------------------------------------------
(* Specification of one request to a tool, with any arguments, against     *)
(* providers whose getCosts fulfils or rejects in any way.                 *)

ToolInit ==
    /\ \E n \in 0 .. MaxProviders : tool = IdleRequest(n)
    /\ an = IdleAn
    /\ rt = RetryIdle(ClientRetryOptions)
    /\ store = IdleStore
    /\ mgr = IdleMgr
    /\ noop = IdleNoop
    /\ calls = IdleCalls

ToolCall ==
    /\ tool.pc = "idle"
    /\ \E name \in ToolNames :
       \E provider \in IF TakesProvider(name)
                       THEN {Undefined} \cup {Some(ProviderOrder[i]) : i \in DOMAIN ProviderOrder}
                       ELSE {Undefined} :
       \E r1 \in IF RangesOf(name) >= 1 THEN Ranges ELSE {NoRange} :
       \E r2 \in IF RangesOf(name) >= 2 THEN Ranges ELSE {NoRange} :
          tool' = Invoke(tool, name, provider, r1, r2)
    /\ UNCHANGED <<rt, store, mgr, noop, calls, an>>

GetCostsFulfils ==
    /\ tool.pc = "running"
    /\ \E k \in tool.pending, total \in Totals : tool' = OnFulfil(tool, k, total)
    /\ UNCHANGED <<rt, store, mgr, noop, calls, an>>

GetCostsRejects ==
    /\ tool.pc = "running"
    /\ \E k \in tool.pending, error \in Rejections : tool' = OnReject(tool, k, error)
    /\ UNCHANGED <<rt, store, mgr, noop, calls, an>>

ToolNext == ToolCall \/ GetCostsFulfils \/ GetCostsRejects

ToolSpec == ToolInit /\ [][ToolNext]_vars

----------------------------------------------------------------------------
(* Properties of a tool request, checked under ToolSpec.                   *)

(* The {provider, error} records of the providers that failed, in order. *)
ExpectedErrors ==
    [i \in DOMAIN tool.failed |->
        [provider |-> tool.failed[i].provider, error |-> errorText(tool.failed[i].error)]]

AllMode == tool.pc = "returned" /\ tool.mode = "all"

(* C11: when getCostTool without a provider argument has returned and some *)
(* provider's getCosts had thrown, the response has success = true, its    *)
(* providers are exactly the data of the providers that succeeded, its     *)
(* total is the sum of their totals, and its errors hold exactly one       *)
(* {provider, error} entry per failed provider, naming that provider.      *)
C11_PartialFailureIsReported ==
    (AllMode /\ tool.name = "getCost" /\ tool.failed # <<>>) =>
        /\ tool.result.success
        /\ tool.result.providers = tool.succeeded
        /\ tool.result.total = Some(SumTotals(tool.succeeded))
        /\ tool.result.errors = Some(ExpectedErrors)

(* getCostTool over two providers: the first failed, the second succeeded. *)
C11_Witness ==
    /\ AllMode
    /\ tool.name = "getCost"
    /\ Len(tool.failed) = 1
    /\ Len(tool.succeeded) = 1
    /\ tool.failed[1].provider = "aws"
    /\ tool.result.total = Some(MaxTotal)

(* C12: in a request over all configured providers, no provider's getCosts *)
(* is started after another provider's getCosts has settled, and the       *)
(* response is built only when every provider's getCosts has settled.      *)
C12_FetchesStartTogether ==
    tool.mode = "all" =>
        /\ tool.lateStarts = {}
        /\ tool.pc = "returned" =>
              tool.done = {tool.providers[i] : i \in DOMAIN tool.providers}

(* C13: when getCostBreakdownTool, getCostTrendsTool or getCostPeriodsTool *)
(* without a provider argument has returned, the response has success =    *)
(* true, holds the analyses of the providers that succeeded, and, when a   *)
(* provider failed, an errors list with one {provider, error} record for   *)
(* each failed provider.                                                   *)
C13_AnalyticsReportErrors ==
    (AllMode /\ tool.name \in {"breakdown", "trends", "periods"}) =>
        /\ tool.result.success
        /\ tool.result.providers = tool.succeeded
        /\ tool.failed # <<>> => tool.result.errors = Some(ExpectedErrors)

(* C14: when a tool was asked for one provider and a getCosts of that      *)
(* provider has rejected, the tool has thrown that very error: it has      *)
(* built no response and kept no analysis, and no further getCosts was     *)
(* awaited.                                                                *)
C14_SingleProviderErrorPropagates ==
    (tool.mode = "single" /\ tool.failed # <<>>) =>
        /\ tool.pc = "thrown"
        /\ Len(tool.failed) = 1
        /\ tool.err = tool.failed[1].error
        /\ tool.result = NoResult
        /\ tool.items = <<>>
        /\ tool.pending = {}

(* getCostPeriodsTool for aws: the first period's getCosts had fulfilled   *)
(* when the second one's rejected.                                         *)
C14_Witness ==
    /\ tool.mode = "single"
    /\ tool.name = "periods"
    /\ tool.pc = "thrown"
    /\ tool.err \in Rejections
    /\ DOMAIN tool.got = {1}

(* C15: every tool that takes a date range has, once called with a range   *)
(* whose start is not before its end, thrown a ValidationError without     *)
(* having called getCosts of any provider.                                 *)
C15_EmptyRangeRejectedFirst ==
    (/\ tool.pc # "idle"
     /\ \/ RangesOf(tool.name) >= 1 /\ tool.r1.start >= tool.r1.end
        \/ RangesOf(tool.name) >= 2 /\ tool.r2.start >= tool.r2.end) =>
        /\ tool.pc = "thrown"
        /\ tool.err.cls = "ValidationError"
        /\ tool.invoked = 0

----------------------------------------------------------------------------
(* Breakdown analysis: analyzeBreakdown, calculateBreakdown and            *)
(* filterCostData of tools/getCostBreakdown.ts.                            *)
(*                                                                         *)
(* Amounts are whole numbers of a currency unit.  A quotient the code      *)
(* computes (a percentage) is kept exact, as the fraction num / den, so    *)
(* that sums and comparisons of percentages are those of the exact values; *)
(* den = 0 stands for the NaN (num = 0) or Infinity (num > 0) of a         *)
(* division by a zero total.                                               *)

(* A CostBreakdown item; region, date and tag are optional. *)
CostItem(service, region, date, tag, amount) ==
    [service |-> service, region |-> region, date |-> date, tag |-> tag, amount |-> amount]

(* The key of an item in a dimension (the switch of calculateBreakdown);   *)
(* an empty string is falsy and gives the default.                         *)
groupKey(item, dimension) ==
    CASE dimension = "service" ->
            IF item.service # "" THEN item.service ELSE "Unknown Service"
      [] dimension = "region" ->
            IF item.region # Undefined /\ item.region # Some("")
            THEN item.region[1] ELSE "Global"
      [] dimension = "date" ->
            IF item.date # Undefined THEN item.date[1] ELSE "Unknown Date"
      [] dimension = "tag" ->
            IF item.tag # Undefined /\ item.tag # Some("")
            THEN item.tag[1] ELSE "Untagged"
      [] OTHER -> "Unknown"

(* The predicate of filterCostData: an item without a date matches no      *)
(* value, not even 'Unknown Date'; an unknown dimension matches nothing.   *)
matchesKey(item, dimension, value) ==
    CASE dimension = "service" -> groupKey(item, dimension) = value
      [] dimension = "region" -> groupKey(item, dimension) = value
      [] dimension = "date" -> item.date # Undefined /\ item.date[1] = value
      [] dimension = "tag" -> groupKey(item, dimension) = value
      [] OTHER -> FALSE

RECURSIVE sumAmounts(_)
(* filtered.reduce((sum, item) => sum + item.amount, 0) *)
sumAmounts(items) ==
    IF items = <<>> THEN 0 ELSE items[1].amount + sumAmounts(Tail(items))

(* UnifiedCostData, reduced to its costs. *)
CostData(total, breakdown) == [total |-> total, breakdown |-> breakdown]

filterCostData(costData, dimension, value) ==
    LET keep(item) == matchesKey(item, dimension, value)
        filtered == SelectSeq(costData.breakdown, keep)
    IN  CostData(sumAmounts(filtered), filtered)

(* grouped.set(key, (grouped.get(key) || 0) + item.amount): a Map keeps    *)
(* its keys in the order of their first insertion.                         *)
mapAdd(grouped, key, amount) ==
    IF \E i \in DOMAIN grouped : grouped[i].key = key
    THEN [i \in DOMAIN grouped |->
            IF grouped[i].key = key
            THEN [key |-> key, value |-> grouped[i].value + amount]
            ELSE grouped[i]]
    ELSE Append(grouped, [key |-> key, value |-> amount])

RECURSIVE groupCosts(_, _, _)
(* for (const item of costData.costs.breakdown) { ... grouped.set(...) } *)
groupCosts(items, dimension, grouped) ==
    IF items = <<>> THEN grouped
    ELSE groupCosts(Tail(items), dimension,
                 mapAdd(grouped, groupKey(items[1], dimension), items[1].amount))

(* (variant: the percentage is rounded up to a whole number) *)
percentageRoundedUp(value, total) ==
    IF total = 0 THEN [num |-> value * 100, den |-> total]
    ELSE [num |-> ((value * 100 + total - 1) \div total) * total, den |-> total]

(* (value / costData.costs.total) * 100 *)
percentage(value, total) == [num |-> value * 100, den |-> total]

(* item.percentage >= threshold *)
meetsThreshold(p, threshold) ==
    IF p.den = 0 THEN p.num > 0 ELSE p.num >= threshold * p.den

(* (variant: an item goes before the items of the same value) *)
insertByValueBeforeTies(sorted, item) ==
    LET ahead == {i \in DOMAIN sorted : sorted[i].value > item.value}
        n == IF ahead = {} THEN 0 ELSE CHOOSE i \in ahead : \A j \in ahead : j <= i
    IN  SubSeq(sorted, 1, n) \o <<item>> \o SubSeq(sorted, n + 1, Len(sorted))

(* Array.prototype.sort((a, b) => b.value - a.value): stable, so an item   *)
(* goes behind every item whose value is not smaller.                      *)
insertByValue(sorted, item) ==
    LET ahead == {i \in DOMAIN sorted : sorted[i].value >= item.value}
        n == IF ahead = {} THEN 0 ELSE CHOOSE i \in ahead : \A j \in ahead : j <= i
    IN  SubSeq(sorted, 1, n) \o <<item>> \o SubSeq(sorted, n + 1, Len(sorted))

RECURSIVE sortByValue(_, _)
sortByValue(items, sorted) ==
    IF items = <<>> THEN sorted
    ELSE sortByValue(Tail(items), insertByValue(sorted, items[1]))

(* items.slice(0, topN) *)
slice(items, topN) == SubSeq(items, 1, Min(topN, Len(items)))

(* if (threshold !== undefined) items = items.filter(...);                 *)
(* items = items.slice(0, topN)                                            *)
applyLimits(items, topN, threshold) ==
    LET keep(item) == meetsThreshold(item.percentage, threshold[1])
    IN  slice(IF threshold # Undefined THEN SelectSeq(items, keep) ELSE items, topN)

(* (variant: sub-breakdowns take the topN of the caller) *)
subTopNOfCaller(topN) == topN

(* 5, // Limit sub-breakdowns to top 5 *)
subTopN(topN) == 5

(* The groups of a dimension with their amounts and percentages, sorted. *)
sortedGroups(costData, dimension) ==
    LET grouped == groupCosts(costData.breakdown, dimension, <<>>)
        items == [i \in DOMAIN grouped |->
                    [key |-> grouped[i].key, value |-> grouped[i].value,
                     percentage |-> percentage(grouped[i].value, costData.total),
                     subBreakdown |-> Undefined]]
    IN  sortByValue(items, <<>>)

RECURSIVE calculateBreakdown(_, _, _, _)
calculateBreakdown(costData, dimensions, topN, threshold) ==
    LET primaryDimension == IF dimensions = <<>> THEN "undefined" ELSE dimensions[1]
        items == applyLimits(sortedGroups(costData, primaryDimension), topN, threshold)
        sub(item) ==
            LET filteredData == filterCostData(costData, primaryDimension, item.key)
            IN  IF Len(filteredData.breakdown) > 0
                THEN Some(calculateBreakdown(filteredData, Tail(dimensions),
                                             subTopN(topN), Undefined))
                ELSE Undefined
    IN  IF Len(dimensions) > 1
        THEN [i \in DOMAIN items |-> [items[i] EXCEPT !.subBreakdown = sub(items[i])]]
        ELSE items

RECURSIVE sumValues(_)
(* breakdown.reduce((sum, item) => sum + item.value, 0) *)
sumValues(items) ==
    IF items = <<>> THEN 0 ELSE items[1].value + sumValues(Tail(items))

(* (includedCost / costData.costs.total) * 100 *)
coveragePercentage(breakdown, total) == [num |-> sumValues(breakdown) * 100, den |-> total]

(* The BreakdownAnalysis analyzeBreakdown returns for the cost data that   *)
(* getCosts delivered.                                                     *)
analyzeBreakdown(costData, dimensions, topN, threshold) ==
    LET breakdown == calculateBreakdown(costData, dimensions, topN, threshold)
    IN  [op |-> "analyzeBreakdown", costData |-> costData, dimensions |-> dimensions,
         topN |-> topN, threshold |-> threshold,
         totalCost |-> costData.total, breakdown |-> breakdown,
         itemsIncluded |-> Len(breakdown),
         coveragePercentage |-> coveragePercentage(breakdown, costData.total)]

----------------------------------------------------------------------------
(* Specification of one breakdown analysis: getCosts has delivered some    *)
(* cost data whose total is the sum of its items, and analyzeBreakdown is  *)
(* applied to it with some dimensions, topN and threshold.                 *)

MaxItems == 3
MaxWide == 6

Services == {"A", "B"}
Amounts == {0, 1, 2}

(* dimensions, an array of 'service' | 'region' | 'date' | 'tag' *)
DimensionChoices ==
    {<<>>, <<"service">>, <<"region">>, <<"service", "region">>, <<"region", "service">>,
     <<"date", "service">>, <<"tag", "region">>, <<"service", "region", "date">>}

(* topN: 1 to 100, 10 when not given *)
TopNChoices == {1, 2, 10}

(* threshold: not given, or 0 to 100 *)
ThresholdChoices == {Undefined, Some(0), Some(50), Some(100)}

(* Items of a few services, without region, date or tag. *)
PlainItems ==
    {CostItem(service, Undefined, Undefined, Undefined, amount) :
        service \in Services, amount \in Amounts}

(* n items of one service, each in a region of its own. *)
WideBreakdown(n) ==
    [i \in 1 .. n |-> CostItem("A", Some(ToString(i)), Undefined, Undefined, 1)]

(* Items A = 60, B = 30, C = 10. *)
ExampleBreakdown ==
    <<CostItem("A", Undefined, Undefined, Undefined, 60),
      CostItem("B", Undefined, Undefined, Undefined, 30),
      CostItem("C", Undefined, Undefined, Undefined, 10)>>

Breakdowns ==
    UNION {[1 .. n -> PlainItems] : n \in 0 .. MaxItems}
        \cup {WideBreakdown(n) : n \in 1 .. MaxWide}
        \cup {ExampleBreakdown}

BreakdownInit ==
    /\ \E breakdown \in Breakdowns :
          an = [op |-> "getCosts", costData |-> CostData(sumAmounts(breakdown), breakdown)]
    /\ tool = IdleTool
    /\ rt = RetryIdle(ClientRetryOptions)
    /\ store = IdleStore
    /\ mgr = IdleMgr
    /\ noop = IdleNoop
    /\ calls = IdleCalls

AnalyzeBreakdown ==
    /\ an.op = "getCosts"
    /\ \E dimensions \in DimensionChoices, topN \in TopNChoices, threshold \in ThresholdChoices :
          an' = analyzeBreakdown(an.costData, dimensions, topN, threshold)
    /\ UNCHANGED <<rt, store, mgr, noop, calls, tool>>

BreakdownNext == AnalyzeBreakdown

BreakdownSpec == BreakdownInit /\ [][BreakdownNext]_vars

----------------------------------------------------------------------------
(* Properties of the breakdown analysis, checked under BreakdownSpec.      *)

Analyzed == an.op = "analyzeBreakdown"

PrimaryDimension == IF an.dimensions = <<>> THEN "undefined" ELSE an.dimensions[1]

(* The keys of the first dimension among the items of the input, the       *)
(* amount of a key, and the place where a key is met first.                *)
InputKeys ==
    {groupKey(an.costData.breakdown[i], PrimaryDimension) : i \in DOMAIN an.costData.breakdown}

MatchesInput(key) ==
    LET is(item) == groupKey(item, PrimaryDimension) = key
    IN  SelectSeq(an.costData.breakdown, is)

FirstMet(key) ==
    CHOOSE i \in DOMAIN an.costData.breakdown :
        /\ groupKey(an.costData.breakdown[i], PrimaryDimension) = key
        /\ \A j \in 1 .. i - 1 : groupKey(an.costData.breakdown[j], PrimaryDimension) # key

ReturnedKeys == {an.breakdown[i].key : i \in DOMAIN an.breakdown}

(* key1 comes before key2 in the order by amount descending, ties in the   *)
(* order of first encounter.                                               *)
Outranks(key1, key2) ==
    \/ sumAmounts(MatchesInput(key1)) > sumAmounts(MatchesInput(key2))
    \/ /\ sumAmounts(MatchesInput(key1)) = sumAmounts(MatchesInput(key2))
       /\ FirstMet(key1) < FirstMet(key2)

(* The key's share of the total is at least the threshold asked for. *)
KeyMeetsThreshold(key) ==
    an.threshold # Undefined =>
        meetsThreshold(percentage(sumAmounts(MatchesInput(key)), an.costData.total),
                       an.threshold[1])

RECURSIVE sumPercentages(_)
(* The sum of the percentages of the items, as a multiple of 1 / total. *)
sumPercentages(items) ==
    IF items = <<>> THEN 0 ELSE items[1].percentage.num + sumPercentages(Tail(items))

C17_SortedFilteredThenCut ==
    Analyzed =>
        /\ Len(an.breakdown) <= an.topN
        /\ \A i \in DOMAIN an.breakdown :
              /\ an.breakdown[i].key \in InputKeys
              /\ an.breakdown[i].value = sumAmounts(MatchesInput(an.breakdown[i].key))
              /\ KeyMeetsThreshold(an.breakdown[i].key)
        /\ \A i, j \in DOMAIN an.breakdown :
              i < j => /\ Outranks(an.breakdown[i].key, an.breakdown[j].key)
                       /\ an.breakdown[i].value >= an.breakdown[j].value
        /\ \A key \in InputKeys \ ReturnedKeys :
              KeyMeetsThreshold(key) =>
                  /\ Len(an.breakdown) = an.topN
                  /\ \A i \in DOMAIN an.breakdown : Outranks(an.breakdown[i].key, key)

(* B = 1, A = 2, B = 1 with threshold 50 and topN 2: B and A tie at 2 of 4 *)
(* and are returned in the order met, B before A.                          *)
C17_Witness ==
    /\ Analyzed
    /\ an.threshold = Some(50)
    /\ an.topN = 2
    /\ an.dimensions = <<"service">>
    /\ Len(an.costData.breakdown) = 3
    /\ an.costData.breakdown[1].service = "B"
    /\ an.costData.breakdown[1].amount = 1
    /\ an.costData.breakdown[2].service = "A"
    /\ an.costData.breakdown[3].service = "B"
    /\ Len(an.breakdown) = 2
    /\ an.breakdown[1].key = "B"
    /\ an.breakdown[2].key = "A"
    /\ an.breakdown[1].value = an.breakdown[2].value

(* C18: coveragePercentage is 100 times the amounts of the items of the    *)
(* returned groups over the total; it is 100 when the threshold is 0 and   *)
(* topN is not below the number of groups; it is 90 for A = 60, B = 30,    *)
(* C = 10 with topN = 2.                                                   *)
C18_CoverageIsIncludedShare ==
    Analyzed =>
        LET included(item) == groupKey(item, PrimaryDimension) \in ReturnedKeys
            coverage == an.coveragePercentage
        IN  /\ coverage.den = an.costData.total
            /\ coverage.num = 100 * sumAmounts(SelectSeq(an.costData.breakdown, included))
            /\ (an.threshold = Some(0) /\ an.topN >= Cardinality(InputKeys)) =>
                  /\ coverage.den > 0
                  /\ coverage.num = 100 * coverage.den
            /\ (/\ an.costData.breakdown = ExampleBreakdown
                /\ an.dimensions = <<"service">>
                /\ an.topN = 2
                /\ an.threshold = Undefined) =>
                  coverage.num = 90 * coverage.den

RECURSIVE SubListsWithin(_, _)
(* Every subBreakdown list below the items has at most n items. *)
SubListsWithin(items, n) ==
    \A i \in DOMAIN items :
        items[i].subBreakdown # Undefined =>
            /\ Len(items[i].subBreakdown[1]) <= n
            /\ SubListsWithin(items[i].subBreakdown[1], n)

RECURSIVE Depth(_)
(* The number of levels of a breakdown tree. *)
Depth(items) ==
    IF items = <<>> THEN 0
    ELSE LET below == {IF items[i].subBreakdown = Undefined THEN 0
                       ELSE Depth(items[i].subBreakdown[1]) : i \in DOMAIN items}
         IN  1 + CHOOSE d \in below : \A e \in below : e <= d

(* C19: in a breakdown over one or more dimensions, every subBreakdown     *)
(* list at every depth has at most 5 items whatever topN the caller gave,  *)
(* and the tree has no more levels than dimensions were asked for.  (The   *)
(* analysis has been computed: the recursion came to an end.)              *)
C19_SubBreakdownBounded ==
    (Analyzed /\ Len(an.dimensions) >= 1) =>
        /\ SubListsWithin(an.breakdown, 5)
        /\ Depth(an.breakdown) <= Len(an.dimensions)

(* Service A spread over more than 5 regions, topN 10: its subBreakdown    *)
(* by region holds 5 items.                                                *)
C19_Witness ==
    /\ Analyzed
    /\ an.dimensions = <<"service", "region">>
    /\ an.topN = 10
    /\ Len(an.costData.breakdown) > 5
    /\ Len(an.breakdown) = 1
    /\ an.breakdown[1].subBreakdown # Undefined
    /\ Len(an.breakdown[1].subBreakdown[1]) = 5
    /\ Depth(an.breakdown) = 2

----------------------------------------------------------------------------
(* Trend analysis: calculateTrends of tools/getCostTrends.ts.  The date of *)
(* an item is its getTime(), a day number.                                 *)

(* a.date?.getTime() ?? 0 *)
timeOf(item) == IF item.date = Undefined THEN 0 ELSE item.date[1]

(* The stable sort by date ascending: an item goes behind every item whose *)
(* time is not later.                                                      *)
insertByDate(sorted, item) ==
    LET ahead == {i \in DOMAIN sorted : timeOf(sorted[i]) <= timeOf(item)}
        n == IF ahead = {} THEN 0 ELSE CHOOSE i \in ahead : \A j \in ahead : j <= i
    IN  SubSeq(sorted, 1, n) \o <<item>> \o SubSeq(sorted, n + 1, Len(sorted))

RECURSIVE sortByDate(_, _)
(* [...costData.costs.breakdown].sort((a, b) => time(a) - time(b)) *)
sortByDate(items, sorted) ==
    IF items = <<>> THEN sorted
    ELSE sortByDate(Tail(items), insertByDate(sorted, items[1]))

(* previousCost > 0 ? (changeFromPrevious / previousCost) * 100 : 0 *)
changePercentage(changeFromPrevious, previousCost) ==
    IF previousCost > 0
    THEN [num |-> changeFromPrevious * 100, den |-> previousCost]
    ELSE [num |-> 0, den |-> 1]

RECURSIVE trendLoop(_, _, _)
(* The loop over the sorted items; items without a date are skipped. *)
trendLoop(items, previousCost, trends) ==
    IF items = <<>> THEN trends
    ELSE IF items[1].date = Undefined THEN trendLoop(Tail(items), previousCost, trends)
    ELSE LET item == items[1]
             changeFromPrevious == item.amount - previousCost
         IN  trendLoop(Tail(items), item.amount,
                       Append(trends,
                              [date |-> item.date[1], cost |-> item.amount,
                               changeFromPrevious |-> changeFromPrevious,
                               changePercentage |->
                                   changePercentage(changeFromPrevious, previousCost)]))

(* let previousCost = 0 *)
calculateTrends(costData) == trendLoop(sortByDate(costData.breakdown, <<>>), 0, <<>>)

RECURSIVE sumCosts(_)
(* costs.reduce((a, b) => a + b, 0) *)
sumCosts(costs) == IF costs = <<>> THEN 0 ELSE costs[1] + sumCosts(Tail(costs))

(* half.reduce((a, b) => a + b, 0) / half.length, kept as an exact         *)
(* quotient; den = 0 is the NaN of an empty half (0 / 0).                  *)
average(costs) == [num |-> sumCosts(costs), den |-> Len(costs)]

(* a > b * tenths / 10; a comparison with NaN is false. *)
greaterThanScaled(a, b, tenths) ==
    /\ a.den > 0
    /\ b.den > 0
    /\ a.num * b.den * 10 > b.num * tenths * a.den

(* a < b * tenths / 10; a comparison with NaN is false. *)
lessThanScaled(a, b, tenths) ==
    /\ a.den > 0
    /\ b.den > 0
    /\ a.num * b.den * 10 < b.num * tenths * a.den

(* (variant: the middle point of an odd series goes to the first half) *)
halfLengthRoundedUp(length) == (length + 1) \div 2

(* Math.floor(costs.length / 2) *)
halfLength(length) == length \div 2

(* The trend direction of calculateSummary. *)
trendDirection(costs) ==
    LET firstHalf == SubSeq(costs, 1, halfLength(Len(costs)))
        secondHalf == SubSeq(costs, halfLength(Len(costs)) + 1, Len(costs))
        firstHalfAvg == average(firstHalf)
        secondHalfAvg == average(secondHalf)
    IN  IF greaterThanScaled(secondHalfAvg, firstHalfAvg, 11) THEN "increasing"
        ELSE IF lessThanScaled(secondHalfAvg, firstHalfAvg, 9) THEN "decreasing"
        ELSE "stable"

(* calculateSummary: the total and the trend direction of the series. *)
calculateSummary(trends, costData) ==
    LET costs == [i \in DOMAIN trends |-> trends[i].cost]
    IN  [totalCost |-> costData.total, trend |-> trendDirection(costs)]

----------------------------------------------------------------------------
(* Specification of one trend calculation on the cost data getCosts has    *)
(* delivered: items with or without a date, in any order.                  *)

DatedItems ==
    {CostItem("A", Undefined, date, Undefined, amount) :
        date \in {Undefined} \cup {Some(d) : d \in Days}, amount \in Amounts}

(* The series of the 30 day example, one item per day. *)
ExampleSeries == <<80, 85, 90, 100, 120>>

ExampleTrendBreakdown ==
    [i \in DOMAIN ExampleSeries |->
        CostItem("A", Undefined, Some(i), Undefined, ExampleSeries[i])]

TrendInit ==
    /\ \E breakdown \in UNION {[1 .. n -> DatedItems] : n \in 0 .. MaxItems}
                          \cup {ExampleTrendBreakdown} :
          an = [op |-> "getCosts", costData |-> CostData(sumAmounts(breakdown), breakdown)]
    /\ tool = IdleTool
    /\ rt = RetryIdle(ClientRetryOptions)
    /\ store = IdleStore
    /\ mgr = IdleMgr
    /\ noop = IdleNoop
    /\ calls = IdleCalls

CalculateTrends ==
    /\ an.op = "getCosts"
    /\ an' = [op |-> "calculateTrends", costData |-> an.costData,
              trends |-> calculateTrends(an.costData),
              summary |-> calculateSummary(calculateTrends(an.costData), an.costData)]
    /\ UNCHANGED <<rt, store, mgr, noop, calls, tool>>

TrendNext == CalculateTrends

TrendSpec == TrendInit /\ [][TrendNext]_vars

----------------------------------------------------------------------------
(* Properties of the trend calculation, checked under TrendSpec.           *)

(* C20: the first point of a computed trend series has changeFromPrevious  *)
(* = 0 and changePercentage = 0, whatever its cost.                        *)
C20_FirstPointHasNoChange ==
    (an.op = "calculateTrends" /\ an.trends # <<>>) =>
        /\ an.trends[1].changeFromPrevious = 0
        /\ an.trends[1].changePercentage.num = 0

(* The costs of the computed trend points, in date order. *)
TrendCosts == [i \in DOMAIN an.trends |-> an.trends[i].cost]

(* C21: for a series of n >= 2 points, with the first floor(n/2) points    *)
(* as first half, the direction is 'increasing' iff mean(second half) >    *)
(* 1.1 * mean(first half), 'decreasing' iff mean(second half) < 0.9 *      *)
(* mean(first half), and 'stable' otherwise; [80,85,90,100,120] is         *)
(* 'increasing'.  (Means compared by cross-multiplication.)                *)
C21_TrendDirection ==
    (an.op = "calculateTrends" /\ Len(an.trends) >= 2) =>
        LET n == Len(TrendCosts)
            k == n \div 2
            s1 == sumCosts(SubSeq(TrendCosts, 1, k))
            s2 == sumCosts(SubSeq(TrendCosts, k + 1, n))
            up == 10 * s2 * k > 11 * s1 * (n - k)
            down == 10 * s2 * k < 9 * s1 * (n - k)
        IN  /\ an.summary.trend \in {"increasing", "decreasing", "stable"}
            /\ an.summary.trend = "increasing" <=> up
            /\ an.summary.trend = "decreasing" <=> down
            /\ an.summary.trend = "stable" <=> (~up /\ ~down)
            /\ TrendCosts = ExampleSeries => an.summary.trend = "increasing"

(* The example series has been analysed and is increasing. *)
C21_Witness ==
    /\ an.op = "calculateTrends"
    /\ TrendCosts = ExampleSeries
    /\ an.summary.trend = "increasing"

----------------------------------------------------------------------------
(* Period comparison: comparePeriods, calculateBreakdownComparison and the *)
(* breakdown part of generatePeriodInsights of tools/getCostPeriods.ts.    *)
(* The fields that depend on the dates only (days, dailyAverage) are not   *)
(* carried.                                                                *)

(* (variant: a period that follows a free one counts as a rise of 100 %) *)
periodChangeFromZero(total1, total2) ==
    IF total1 > 0 THEN [num |-> (total2 - total1) * 100, den |-> total1]
    ELSE IF total2 > 0 THEN [num |-> 100, den |-> 1]
    ELSE [num |-> 0, den |-> 1]

(* costs1.costs.total > 0                                                  *)
(*   ? ((costs2.costs.total - costs1.costs.total) / costs1.costs.total)    *)
(*     * 100 : 0                                                           *)
periodChange(total1, total2) ==
    IF total1 > 0 THEN [num |-> (total2 - total1) * 100, den |-> total1]
    ELSE [num |-> 0, den |-> 1]

(* percentageChange > 5 ? 'increase' : percentageChange < -5 ? 'decrease'  *)
(* : 'stable'                                                              *)
periodTrend(change) ==
    IF change.num > 5 * change.den THEN "increase"
    ELSE IF change.num < (-5) * change.den THEN "decrease"
    ELSE "stable"

(* item.service || 'Unknown' *)
serviceOf(item) == IF item.service = "" THEN "Unknown" ELSE item.service

(* services.get(service) || {period1: 0, period2: 0}; existing.periodN +=  *)
(* item.amount; services.set(service, existing).  services is the Map, in  *)
(* insertion order.                                                        *)
addServiceCost(services, item, period) ==
    LET hit == {i \in DOMAIN services : services[i].service = serviceOf(item)}
        add(e) == IF period = 1 THEN [e EXCEPT !.period1 = @ + item.amount]
                  ELSE [e EXCEPT !.period2 = @ + item.amount]
    IN  IF hit = {}
        THEN Append(services, add([service |-> serviceOf(item), period1 |-> 0, period2 |-> 0]))
        ELSE [i \in DOMAIN services |-> IF i \in hit THEN add(services[i]) ELSE services[i]]

RECURSIVE aggregateServices(_, _, _)
(* for (const item of costsN.costs.breakdown) ... *)
aggregateServices(items, services, period) ==
    IF items = <<>> THEN services
    ELSE aggregateServices(Tail(items), addServiceCost(services, items[1], period), period)

(* (variant: a service without a cost in period 1 has no change) *)
serviceChangeZeroBase(period1, period2) ==
    IF period1 > 0 THEN [num |-> (period2 - period1) * 100, den |-> period1]
    ELSE [num |-> 0, den |-> 1]

(* costs.period1 > 0 ? ((costs.period2 - costs.period1) / costs.period1)   *)
(* * 100 : costs.period2 > 0 ? 100 : 0                                     *)
serviceChange(period1, period2) ==
    IF period1 > 0 THEN [num |-> (period2 - period1) * 100, den |-> period1]
    ELSE IF period2 > 0 THEN [num |-> 100, den |-> 1]
    ELSE [num |-> 0, den |-> 1]

(* Math.abs *)
abs(x) == IF x < 0 THEN -x ELSE x

(* The stable sort by |difference| descending. *)
insertByDifference(sorted, entry) ==
    LET ahead == {i \in DOMAIN sorted : abs(sorted[i].difference) >= abs(entry.difference)}
        n == IF ahead = {} THEN 0 ELSE CHOOSE i \in ahead : \A j \in ahead : j <= i
    IN  SubSeq(sorted, 1, n) \o <<entry>> \o SubSeq(sorted, n + 1, Len(sorted))

RECURSIVE sortByDifference(_, _)
(* .sort((a, b) => Math.abs(b.difference) - Math.abs(a.difference)) *)
sortByDifference(entries, sorted) ==
    IF entries = <<>> THEN sorted
    ELSE sortByDifference(Tail(entries), insertByDifference(sorted, entries[1]))

calculateBreakdownComparison(costs1, costs2) ==
    LET services == aggregateServices(costs2.breakdown,
                                      aggregateServices(costs1.breakdown, <<>>, 1), 2)
        entry(e) == [service |-> e.service,
                     period1Cost |-> e.period1,
                     period2Cost |-> e.period2,
                     difference |-> e.period2 - e.period1,
                     percentageChange |-> serviceChange(e.period1, e.period2)]
    IN  sortByDifference([i \in DOMAIN services |-> entry(services[i])], <<>>)

(* b.period1Cost === 0 && b.period2Cost > 0 *)
isNewService(b) == b.period1Cost = 0 /\ b.period2Cost > 0

(* b.period1Cost > 0 && b.period2Cost === 0 *)
isDiscontinuedService(b) == b.period1Cost > 0 /\ b.period2Cost = 0

(* The services an insight line names, if any was found: no line is        *)
(* pushed for an empty list.                                               *)
servicesNamed(found) ==
    IF Len(found) > 0 THEN Some([i \in DOMAIN found |-> found[i].service]) ELSE Undefined

(* The 'New services in period 2' line of generatePeriodInsights. *)
newServicesOf(breakdown) ==
    IF breakdown = Undefined THEN Undefined
    ELSE servicesNamed(SelectSeq(breakdown[1], isNewService))

(* The 'Services discontinued' line of generatePeriodInsights. *)
discontinuedServicesOf(breakdown) ==
    IF breakdown = Undefined THEN Undefined
    ELSE servicesNamed(SelectSeq(breakdown[1], isDiscontinuedService))

(* What comparePeriods returns for the cost data of the two periods. *)
comparePeriods(costs1, costs2, includeBreakdown) ==
    LET absoluteDiff == costs2.total - costs1.total
        percentageChange == periodChange(costs1.total, costs2.total)
        breakdown == IF includeBreakdown
                     THEN Some(calculateBreakdownComparison(costs1, costs2))
                     ELSE Undefined
    IN  [comparison |-> [absoluteDifference |-> absoluteDiff,
                         percentageChange |-> percentageChange,
                         trend |-> periodTrend(percentageChange)],
         breakdown |-> breakdown,
         newServices |-> newServicesOf(breakdown),
         discontinuedServices |-> discontinuedServicesOf(breakdown)]

----------------------------------------------------------------------------
(* Specification of one comparison of the cost data the two getCosts calls *)
(* have delivered: a period is free, or holds a few small items, or a      *)
(* large item of service A (94 to 106) and a few small ones.               *)

MaxPeriodItems == 2

(* The large amounts: 100 and the amounts 5 % and 6 % off it. *)
LargeAmounts == {94, 95, 100, 105, 106}

SmallItems ==
    {CostItem(service, Undefined, Undefined, Undefined, amount) :
        service \in Services, amount \in {0, 1}}

PeriodBreakdowns ==
    LET small == UNION {[1 .. n -> SmallItems] : n \in 0 .. MaxPeriodItems}
        large == {<<CostItem("A", Undefined, Undefined, Undefined, amount)>> :
                     amount \in LargeAmounts}
    IN  small \cup {l \o r : l \in large, r \in small}

PeriodInit ==
    /\ \E b1 \in PeriodBreakdowns, b2 \in PeriodBreakdowns :
          an = [op |-> "getCosts",
                costs1 |-> CostData(sumAmounts(b1), b1),
                costs2 |-> CostData(sumAmounts(b2), b2)]
    /\ tool = IdleTool
    /\ rt = RetryIdle(ClientRetryOptions)
    /\ store = IdleStore
    /\ mgr = IdleMgr
    /\ noop = IdleNoop
    /\ calls = IdleCalls

ComparePeriods ==
    /\ an.op = "getCosts"
    /\ \E includeBreakdown \in BOOLEAN :
          an' = [op |-> "comparePeriods", costs1 |-> an.costs1, costs2 |-> an.costs2,
                 includeBreakdown |-> includeBreakdown,
                 result |-> comparePeriods(an.costs1, an.costs2, includeBreakdown)]
    /\ UNCHANGED <<rt, store, mgr, noop, calls, tool>>

PeriodNext == ComparePeriods

PeriodSpec == PeriodInit /\ [][PeriodNext]_vars

----------------------------------------------------------------------------
(* Properties of the period comparison, checked under PeriodSpec.          *)

Compared == an.op = "comparePeriods"

(* C22: absoluteDifference = total2 - total1; percentageChange is          *)
(* (total2 - total1) / total1 * 100 when total1 > 0 and 0 when total1 = 0, *)
(* even if total2 > 0; trend is 'increase' iff percentageChange > 5,       *)
(* 'decrease' iff percentageChange < -5, otherwise 'stable', so that a     *)
(* comparison against a zero baseline is 'stable'.                         *)
C22_PeriodComparison ==
    Compared =>
        LET total1 == an.costs1.total
            total2 == an.costs2.total
            c == an.result.comparison
            up == total1 > 0 /\ (total2 - total1) * 100 > 5 * total1
            down == total1 > 0 /\ (total2 - total1) * 100 < (-5) * total1
        IN  /\ c.absoluteDifference = total2 - total1
            /\ c.percentageChange.den > 0
            /\ total1 > 0 =>
                  c.percentageChange.num * total1 =
                      (total2 - total1) * 100 * c.percentageChange.den
            /\ total1 = 0 => c.percentageChange.num = 0
            /\ c.trend = "increase" <=> up
            /\ c.trend = "decrease" <=> down
            /\ c.trend = "stable" <=> (~up /\ ~down)
            /\ total1 = 0 => c.trend = "stable"

(* A free first period compared with a second period that cost 106. *)
C22_Witness ==
    /\ Compared
    /\ an.costs1.total = 0
    /\ an.costs2.total = 106
    /\ an.result.comparison.absoluteDifference = 106
    /\ an.result.comparison.percentageChange.num = 0
    /\ an.result.comparison.trend = "stable"

(* The service labels of the items of a period. *)
LabelsOf(costData) == {costData.breakdown[i].service : i \in DOMAIN costData.breakdown}

(* The cost of a service in a period: the sum over its items. *)
CostIn(costData, service) ==
    LET ofService(item) == item.service = service
    IN  sumAmounts(SelectSeq(costData.breakdown, ofService))

(* The services a list of an insight names, none if there is no list. *)
Named(list) == IF list = Undefined THEN {} ELSE {list[1][i] : i \in DOMAIN list[1]}

(* C23: in a comparison with breakdown, every service label of either      *)
(* period has exactly one entry, with its cost in each period (0 where it  *)
(* is absent); an entry with period1Cost = 0 and period2Cost > 0 has       *)
(* percentageChange = 100 and is named as new; an entry with period1Cost   *)
(* > 0 and period2Cost = 0 is named as discontinued.                       *)
C23_PeriodBreakdown ==
    (Compared /\ an.includeBreakdown) =>
        LET breakdown == an.result.breakdown[1]
            entriesOf(service) == {i \in DOMAIN breakdown : breakdown[i].service = service}
        IN  /\ an.result.breakdown # Undefined
            /\ \A service \in LabelsOf(an.costs1) \cup LabelsOf(an.costs2) :
                  /\ Cardinality(entriesOf(service)) = 1
                  /\ \A i \in entriesOf(service) :
                        /\ breakdown[i].period1Cost = CostIn(an.costs1, service)
                        /\ breakdown[i].period2Cost = CostIn(an.costs2, service)
            /\ \A i \in DOMAIN breakdown :
                  /\ breakdown[i].service \in LabelsOf(an.costs1) \cup LabelsOf(an.costs2)
                  /\ (breakdown[i].period1Cost = 0 /\ breakdown[i].period2Cost > 0) =>
                        /\ breakdown[i].percentageChange = [num |-> 100, den |-> 1]
                        /\ breakdown[i].service \in Named(an.result.newServices)
                  /\ (breakdown[i].period1Cost > 0 /\ breakdown[i].period2Cost = 0) =>
                        breakdown[i].service \in Named(an.result.discontinuedServices)

(* Service A only in period 1, service B only in period 2: B is new, A is  *)
(* discontinued.                                                           *)
C23_Witness ==
    /\ Compared
    /\ an.includeBreakdown
    /\ LabelsOf(an.costs1) = {"A"}
    /\ LabelsOf(an.costs2) = {"B"}
    /\ Len(an.costs2.breakdown) = 2
    /\ Named(an.result.newServices) = {"B"}
    /\ Named(an.result.discontinuedServices) = {"A"}
    /\ Len(an.result.breakdown[1]) = 2

----------------------------------------------------------------------------
(* The transformers of the providers: a response is a list of time         *)
(* buckets, a bucket a list of line items (label, amount) and, for AWS, a  *)
(* Total used when the bucket has no groups.  The amount of a line item is *)
(* the cost the transformer reads or computes for it.                      *)

RECURSIVE aggregateLines(_, _)
(* for (const item of bucket) serviceCosts.set(name, existing + cost) *)
aggregateLines(lines, serviceCosts) ==
    IF lines = <<>> THEN serviceCosts
    ELSE aggregateLines(Tail(lines), mapAdd(serviceCosts, lines[1].label, lines[1].amount))

RECURSIVE aggregateBuckets(_, _)
(* for (const bucket of response.data) ... *)
aggregateBuckets(buckets, serviceCosts) ==
    IF buckets = <<>> THEN serviceCosts
    ELSE aggregateBuckets(Tail(buckets), aggregateLines(buckets[1].groups, serviceCosts))

(* costs: {total: costBreakdown.reduce(...), breakdown:                    *)
(* costBreakdown.sort((a, b) => b.amount - a.amount)}                      *)
costsOf(costBreakdown) ==
    LET sorted == sortByValue(costBreakdown, <<>>)
        breakdown == [i \in DOMAIN sorted |->
                        CostItem(sorted[i].key, Undefined, Undefined, Undefined,
                                 sorted[i].value)]
    IN  CostData(sumAmounts(breakdown), breakdown)

(* The transformers that aggregate in a Map and then keep the entries with *)
(* a cost above 0.                                                         *)
transformByMap(response) ==
    LET positive(entry) == entry.value > 0
    IN  costsOf(SelectSeq(aggregateBuckets(response, <<>>), positive))

transformOpenAIUsageResponse(response) == transformByMap(response)

transformAnthropicCostResponse(response) == transformByMap(response)

transformGCPResponse(response) == transformByMap(response)

(* group.Keys?.[0] || 'Unknown Service' *)
awsServiceName(line) == IF line.label = "" THEN "Unknown Service" ELSE line.label

RECURSIVE awsGroups(_, _)
(* for (const group of result.Groups): an amount above 0 is added to the   *)
(* entry found for the service name, or pushed as a new entry.             *)
awsGroups(groups, costBreakdown) ==
    IF groups = <<>> THEN costBreakdown
    ELSE awsGroups(Tail(groups),
                   IF groups[1].amount > 0
                   THEN mapAdd(costBreakdown, awsServiceName(groups[1]), groups[1].amount)
                   ELSE costBreakdown)

(* One element of ResultsByTime: its groups, else its Total, pushed under  *)
(* the service name 'Total' when above 0.                                  *)
awsResult(result, costBreakdown) ==
    IF Len(result.groups) > 0 THEN awsGroups(result.groups, costBreakdown)
    ELSE IF result.total # Undefined /\ result.total[1] > 0
    THEN Append(costBreakdown, [key |-> "Total", value |-> result.total[1]])
    ELSE costBreakdown

RECURSIVE awsResults(_, _)
(* for (const result of response.ResultsByTime) ... *)
awsResults(results, costBreakdown) ==
    IF results = <<>> THEN costBreakdown
    ELSE awsResults(Tail(results), awsResult(results[1], costBreakdown))

transformAWSResponse(response) == costsOf(awsResults(response, <<>>))

----------------------------------------------------------------------------
(* Specification of one transformation of a response of up to MaxBuckets   *)
(* time buckets: grouped buckets of up to two line items, or, for AWS,     *)
(* ungrouped buckets with a Total.                                         *)

MaxBuckets == 2

LineItems == [label : Services, amount : {0, 1}]

GroupedBuckets ==
    {[groups |-> g, total |-> Undefined] : g \in UNION {[1 .. n -> LineItems] : n \in 1 .. 2}}

TotalBuckets == {[groups |-> <<>>, total |-> Some(amount)] : amount \in {0, 1, 2}}

Responses == UNION {[1 .. n -> GroupedBuckets \cup TotalBuckets] : n \in 0 .. MaxBuckets}

IsGrouped(response) == \A i \in DOMAIN response : response[i] \in GroupedBuckets

TransformInit ==
    /\ \E response \in Responses : an = [op |-> "response", response |-> response]
    /\ tool = IdleTool
    /\ rt = RetryIdle(ClientRetryOptions)
    /\ store = IdleStore
    /\ mgr = IdleMgr
    /\ noop = IdleNoop
    /\ calls = IdleCalls

Transformed(provider, costData) ==
    [op |-> "transform", provider |-> provider, response |-> an.response,
     costData |-> costData]

TransformAWS ==
    /\ an.op = "response"
    /\ an' = Transformed("aws", transformAWSResponse(an.response))
    /\ UNCHANGED <<rt, store, mgr, noop, calls, tool>>

TransformOpenAI ==
    /\ an.op = "response"
    /\ IsGrouped(an.response)
    /\ an' = Transformed("openai", transformOpenAIUsageResponse(an.response))
    /\ UNCHANGED <<rt, store, mgr, noop, calls, tool>>

TransformAnthropic ==
    /\ an.op = "response"
    /\ IsGrouped(an.response)
    /\ an' = Transformed("anthropic", transformAnthropicCostResponse(an.response))
    /\ UNCHANGED <<rt, store, mgr, noop, calls, tool>>

TransformGCP ==
    /\ an.op = "response"
    /\ IsGrouped(an.response)
    /\ an' = Transformed("gcp", transformGCPResponse(an.response))
    /\ UNCHANGED <<rt, store, mgr, noop, calls, tool>>

TransformNext == TransformAWS \/ TransformOpenAI \/ TransformAnthropic \/ TransformGCP

TransformSpec == TransformInit /\ [][TransformNext]_vars

----------------------------------------------------------------------------
(* Properties of the transformers, checked under TransformSpec.            *)

RECURSIVE LinesOf(_)
(* The line items of a response, bucket after bucket; an ungrouped bucket  *)
(* is one line item with the label 'Total'.                                *)
LinesOf(response) ==
    IF response = <<>> THEN <<>>
    ELSE (IF Len(response[1].groups) > 0 THEN response[1].groups
          ELSE IF response[1].total # Undefined
          THEN <<[label |-> "Total", amount |-> response[1].total[1]]>>
          ELSE <<>>) \o LinesOf(Tail(response))

(* The sum of the line items of a response that carry a label. *)
LabelSum(response, label) ==
    LET carries(line) == line.label = label
    IN  sumAmounts(SelectSeq(LinesOf(response), carries))

(* C24: in the cost data a transformer returns, each service label is on   *)
(* at most one breakdown entry, and the amount of an entry is the sum of   *)
(* all line items of the response with that label, whatever the shape of   *)
(* the response (ungrouped 'Total' results over several time buckets       *)
(* included).                                                              *)
C24_OneEntryPerLabel ==
    an.op = "transform" =>
        LET breakdown == an.costData.breakdown
        IN  /\ \A i, j \in DOMAIN breakdown :
                  breakdown[i].service = breakdown[j].service => i = j
            /\ \A i \in DOMAIN breakdown :
                  breakdown[i].amount = LabelSum(an.response, breakdown[i].service)

----------------------------------------------------------------------------
(* MemoryCache over NodeCache with expiry.  An entry of the store carries  *)
(* data and t, the time after which NodeCache no longer serves it.  Time   *)
(* is counted in seconds.                                                  *)

(* config.ttl, as getCacheConfig delivers it: CACHE_TTL || 3600, here 2 s *)
defaultTTL == 2

(* ttl || this.defaultTTL *)
effectiveTTL(ttl) == IF ttl = Undefined \/ ttl = Some(0) THEN defaultTTL ELSE ttl[1]

(* (variant: entries are served whatever their age) *)
checkNever(st, key, now) == st

(* The check NodeCache makes of the entry of a key before it serves it: an *)
(* entry whose time is past is deleted.                                    *)
check(st, key, now) ==
    IF key \in DOMAIN st /\ st[key].t < now THEN MemoryDelete(st, key) ELSE st

(* The periodic check of NodeCache (checkperiod): every entry whose time   *)
(* is past is deleted.                                                     *)
checkData(st, now) ==
    LET live == {k \in DOMAIN st : ~(st[k].t < now)}
    IN  [k \in live |-> st[k]]

----------------------------------------------------------------------------
(* Specification of a MemoryCache whose callers issue set, get, delete,    *)
(* clear and has in any order while time passes.  mgr holds the clock, the *)
(* operation issued last with its result, and, per key, the set that was   *)
(* issued last and not followed by a delete of the key or a clear.         *)

MaxTime == 3

MemoryKeys == {"k1", "k2"}

TTLChoices == {Undefined, Some(0), Some(1)}

NoSets == [k \in MemoryKeys |-> Undefined]

MemoryRecord(op, key, ret, now, last) ==
    [op |-> op, key |-> key, ret |-> ret, now |-> now, last |-> last]

MemoryInit ==
    /\ store = IdleStore
    /\ mgr = MemoryRecord("none", "none", Undefined, 0, NoSets)
    /\ rt = RetryIdle(ClientRetryOptions)
    /\ noop = IdleNoop
    /\ tool = IdleTool
    /\ an = IdleAn
    /\ calls = IdleCalls

MemoryCacheSet ==
    \E key \in MemoryKeys, value \in Payloads, ttl \in TTLChoices :
        /\ store' = MemorySet(store, key, [data |-> value, t |-> mgr.now + effectiveTTL(ttl)])
        /\ mgr' = MemoryRecord("set", key, Undefined, mgr.now,
                               [mgr.last EXCEPT ![key] =
                                   Some([value |-> value, at |-> mgr.now, ttl |-> ttl])])
        /\ UNCHANGED <<rt, noop, calls, tool, an>>

MemoryCacheGet ==
    \E key \in MemoryKeys :
        /\ store' = check(store, key, mgr.now)
        /\ mgr' = MemoryRecord("get", key, MemoryGet(store', key), mgr.now, mgr.last)
        /\ UNCHANGED <<rt, noop, calls, tool, an>>

MemoryCacheHas ==
    \E key \in MemoryKeys :
        /\ store' = check(store, key, mgr.now)
        /\ mgr' = MemoryRecord("has", key, Some(MemoryHas(store', key)), mgr.now, mgr.last)
        /\ UNCHANGED <<rt, noop, calls, tool, an>>

MemoryCacheDelete ==
    \E key \in MemoryKeys :
        /\ store' = MemoryDelete(store, key)
        /\ mgr' = MemoryRecord("delete", key, Undefined, mgr.now,
                               [mgr.last EXCEPT ![key] = Undefined])
        /\ UNCHANGED <<rt, noop, calls, tool, an>>

MemoryCacheClear ==
    /\ store' = MemoryClear(store)
    /\ mgr' = MemoryRecord("clear", "none", Undefined, mgr.now, NoSets)
    /\ UNCHANGED <<rt, noop, calls, tool, an>>

(* The timer of NodeCache fires. *)
CheckPeriod ==
    /\ store' = checkData(store, mgr.now)
    /\ mgr' = MemoryRecord("check", "none", Undefined, mgr.now, mgr.last)
    /\ UNCHANGED <<rt, noop, calls, tool, an>>

(* A second passes. *)
Tick ==
    /\ mgr.now < MaxTime
    /\ mgr' = MemoryRecord("tick", "none", Undefined, mgr.now + 1, mgr.last)
    /\ UNCHANGED <<store, rt, noop, calls, tool, an>>

MemoryNext ==
    \/ MemoryCacheSet
    \/ MemoryCacheGet
    \/ MemoryCacheHas
    \/ MemoryCacheDelete
    \/ MemoryCacheClear
    \/ CheckPeriod
    \/ Tick

MemorySpec == MemoryInit /\ [][MemoryNext]_vars

----------------------------------------------------------------------------
(* Properties of the memory cache, checked under MemorySpec.               *)

(* The TTL a set was given: its ttl argument, or the default when it had   *)
(* none (or 0).                                                            *)
TTLOf(set) == IF set.ttl = Undefined \/ set.ttl = Some(0) THEN defaultTTL ELSE set.ttl[1]

(* What a map with expiry holds for a key now: the value of the last set   *)
(* of the key that no delete of the key and no clear followed, unless the  *)
(* TTL of that set has elapsed.                                            *)
Expected(key) ==
    LET set == mgr.last[key]
    IN  IF set # Undefined /\ mgr.now <= set[1].at + TTLOf(set[1])
        THEN Some(set[1].value) ELSE Undefined

(* C25: get(k) has returned the value of the most recent set(k) that was   *)
(* not followed by delete(k) or clear and whose TTL has not elapsed, and   *)
(* undefined otherwise; has(k) has returned true exactly when get(k) would *)
(* return a value; no entry is returned once its TTL has elapsed.          *)
C25_MapWithExpiry ==
    /\ mgr.op = "get" => mgr.ret = Expected(mgr.key)
    /\ mgr.op = "has" => mgr.ret = Some(Expected(mgr.key) # Undefined)
    /\ mgr.op = "get" /\ mgr.ret # Undefined =>
          /\ mgr.last[mgr.key] # Undefined
          /\ mgr.now <= mgr.last[mgr.key][1].at + TTLOf(mgr.last[mgr.key][1])

(* get of a key that was set with a TTL of 1 s two or more seconds ago and *)
(* neither deleted nor cleared since: undefined is returned.               *)
C25_Witness ==
    /\ mgr.op = "get"
    /\ mgr.ret = Undefined
    /\ mgr.last[mgr.key] # Undefined
    /\ mgr.last[mgr.key][1].ttl = Some(1)
    /\ mgr.now >= mgr.last[mgr.key][1].at + 2

----------------------------------------------------------------------------
(* The read-through protocol of getCosts, checked under SharedSpec (a      *)
(* cache whose operations do not throw).                                   *)

(* C26: a getCosts call that finds an entry under its key returns the data *)
(* of that entry with source 'cache' and fetches nothing; a call that has  *)
(* fetched leaves its result under its key when it returns, and no call    *)
(* removes an entry; hence a call with the params of a call that returned  *)
(* successfully fetches nothing unless the entry has expired in between.   *)
C26_ReadThrough ==
    /\ [](\A c \in CallIds :
            (calls[c].pc = "returned" /\ calls[c].ret.source = "cache") =>
                /\ calls[c].rt.calls = 0
                /\ calls[c].response = "none")
    /\ [][\A c \in CallIds :
            LET key == CallKey(calls'[c].client, calls'[c].params)
            IN  /\ (calls[c].pc = "idle" /\ calls'[c].pc # "idle" /\ key \in DOMAIN store) =>
                      /\ calls'[c].pc = "returned"
                      /\ calls'[c].ret.source = "cache"
                      /\ calls'[c].ret.costs = store[key].data.costs
                      /\ calls'[c].ret.period = store[key].data.period
                      /\ calls'[c].rt.calls = 0
                /\ (calls[c].pc = "fetched" /\ calls'[c].pc = "returned") =>
                      /\ key \in DOMAIN store'
                      /\ store'[key].data = calls'[c].ret
                /\ calls' # calls => DOMAIN store \subseteq DOMAIN store'
                /\ calls[c].pc = "returned" => calls'[c] = calls[c]]_vars

(* The first call fetched and returned; the second call, made afterwards   *)
(* with the same params, returned the same costs from the cache without a  *)
(* fetch.                                                                  *)
C26_Witness ==
    /\ calls[1].pc = "returned"
    /\ calls[1].ret.source = "api"
    /\ calls[2].pc = "returned"
    /\ calls[2].client = calls[1].client
    /\ calls[2].params = calls[1].params
    /\ calls[2].ret.source = "cache"
    /\ calls[2].ret.costs = calls[1].ret.costs
    /\ calls[2].rt.calls = 0
    /\ calls[1].rt.calls >= 1

----------------------------------------------------------------------------
(* Distinctness of the cache keys, checked under CacheSpec.                *)

(* The parameter objects a later getCostData may be called with: those of  *)
(* ParamObjects and those with the property a: '1:b:2', a value that holds *)
(* ':' as the ISO dates of the clients do.                                 *)
LookupObjects ==
    LET properties == ParamProperties \cup {[key |-> <<97>>, value |-> <<49, 58, 98, 58, 50>>]}
    IN  {p \in UNION {[1 .. n -> properties] : n \in 0 .. 2} : IsObject(p)}

(* C27: right after setCostData(provider, p1, X), every (provider2, p2)    *)
(* that differs from (provider, p1) in the provider or in a parameter key  *)
(* or value has another cache key, and, when X is the only entry,          *)
(* getCostData(provider2, p2) returns nothing.                             *)
C27_KeysDoNotCollide ==
    mgr.op = "setCostData" =>
        \A provider2 \in CacheProviders, p2 \in LookupObjects :
            (provider2 # mgr.provider \/ PairSet(p2) # PairSet(mgr.params)) =>
                /\ buildKey(provider2, p2) # buildKey(mgr.provider, mgr.params)
                /\ Cardinality(DOMAIN store) = 1 =>
                      getCostData(store, provider2, p2) = Undefined

----------------------------------------------------------------------------
(* Grouping against filtering, checked under BreakdownSpec.                *)

(* C28: for every group key of the first dimension, fallback labels        *)
(* included, filterCostData returns exactly the items grouped under the    *)
(* key, with their sum as total; and in a breakdown over several           *)
(* dimensions every returned group has a subBreakdown whose values sum to  *)
(* at most the value of the group.                                         *)
C28_FilterMatchesGrouping ==
    (Analyzed /\ Len(an.dimensions) >= 1) =>
        /\ \A key \in InputKeys :
              LET filtered == filterCostData(an.costData, PrimaryDimension, key)
              IN  /\ filtered.breakdown = MatchesInput(key)
                  /\ filtered.total = sumAmounts(MatchesInput(key))
        /\ Len(an.dimensions) > 1 =>
              \A i \in DOMAIN an.breakdown :
                  /\ an.breakdown[i].subBreakdown # Undefined
                  /\ sumValues(an.breakdown[i].subBreakdown[1]) <= an.breakdown[i].value

----------------------------------------------------------------------------
(* Pairing and accounting of the getCosts calls of a tool, checked under   *)
(* ToolSpec.                                                               *)

(* The getCosts calls that fulfilled, as a set. *)
Fulfilled == {tool.fulfilled[j] : j \in DOMAIN tool.fulfilled}

(* C29: getCostPeriodsTool issues the two getCosts calls of a provider     *)
(* together (while it runs, each of the two is in flight or has            *)
(* fulfilled); every comparison it keeps is built from both calls of its   *)
(* provider, the first cost being what the call for period1 returned and   *)
(* the second what the call for period2 returned, in whatever order they   *)
(* fulfilled; and a provider of which a call has rejected has no           *)
(* comparison.                                                             *)
C29_PairedByRequest ==
    tool.name = "periods" =>
        /\ tool.invoked % 2 = 0
        /\ tool.pc = "running" => tool.pending \cup DOMAIN tool.got = {1, 2}
        /\ \A j \in DOMAIN tool.items :
              /\ DOMAIN tool.items[j].costs = {1, 2}
              /\ \A k \in {1, 2} :
                    [provider |-> tool.items[j].provider, call |-> k,
                     total |-> tool.items[j].costs[k]] \in Fulfilled
        /\ \A f \in DOMAIN tool.failed, j \in DOMAIN tool.items :
              tool.items[j].provider # tool.failed[f].provider
        /\ (tool.mode = "single" /\ tool.failed # <<>>) => tool.result = NoResult

(* The call for period2 fulfilled first, with another total than the call  *)
(* for period1.                                                            *)
C29_Witness ==
    /\ tool.name = "periods"
    /\ tool.pc = "returned"
    /\ tool.mode = "single"
    /\ Len(tool.fulfilled) = 2
    /\ tool.fulfilled[1].call = 2
    /\ tool.fulfilled[2].call = 1
    /\ tool.fulfilled[1].total # tool.fulfilled[2].total
    /\ tool.result.providers[1].costs[1] = tool.fulfilled[2].total
    /\ tool.result.providers[1].costs[2] = tool.fulfilled[1].total

(* The names of the providers a list of the response is about. *)
ProvidersIn(list) == {list[j].provider : j \in DOMAIN list}

(* The errors of the response, an empty list when the field is omitted. *)
ErrorsOf(result) == IF result.errors = Undefined THEN <<>> ELSE result.errors[1]

(* C30: when getCostTool without a provider argument has returned, getCosts *)
(* was called once per configured provider; every configured provider is   *)
(* in exactly one of providers and errors, so that both together have as   *)
(* many entries as providers are configured; and errors is omitted exactly *)
(* when no provider failed.                                                *)
C30_EveryProviderAccounted ==
    (AllMode /\ tool.name = "getCost") =>
        LET configured == {tool.providers[i] : i \in DOMAIN tool.providers}
            providers == tool.result.providers
            errors == ErrorsOf(tool.result)
        IN  /\ tool.invoked = Len(tool.providers)
            /\ Len(tool.succeeded) + Len(tool.failed) = Len(tool.providers)
            /\ Len(providers) + Len(errors) = Len(tool.providers)
            /\ ProvidersIn(providers) \cup ProvidersIn(errors) = configured
            /\ ProvidersIn(providers) \cap ProvidersIn(errors) = {}
            /\ ProvidersIn(providers) = ProvidersIn(tool.succeeded)
            /\ ProvidersIn(errors) = ProvidersIn(tool.failed)
            /\ tool.result.errors = Undefined <=> tool.failed = <<>>

(* Two providers configured: the first succeeded, the second failed. *)
C30_Witness ==
    /\ AllMode
    /\ tool.name = "getCost"
    /\ Len(tool.providers) = 2
    /\ ProvidersIn(tool.result.providers) = {"aws"}
    /\ ProvidersIn(ErrorsOf(tool.result)) = {"gcp"}
    /\ tool.invoked = 2

====
